---- MODULE Spec2Model ----
(***************************************************************************)
(* Model of the page-counter crate: the byte-level PDF page counter of     *)
(* src/src/ultra_fast_pdf.rs (count_pages_ultra_fast and its strategies),  *)
(* and the estimators of src/src/estimators.rs with the boundary           *)
(* functions of src/src/assembly.rs.                                       *)
(*                                                                         *)
(* A byte buffer is a sequence of integers 0..255.  The source indexes     *)
(* from 0 and TLA+ sequences from 1: a source index i is bytes[i + 1].     *)
(* Option<usize> is an integer: Some(n) is n >= 0, None and a panic are    *)
(* the negative values None and Panic.                                     *)
(***************************************************************************)
EXTENDS Integers, Sequences, FiniteSets, TLC

None == -1
Panic == -2

\* usize on the wasm32 target the crate is built for: usize::MAX = 4294967295,
\* kept as its quotient and remainder by 10 (the digit loop's num * 10 + d)
UsizeMaxDiv10 == 429496729
UsizeMaxMod10 == 5

Min(S) == CHOOSE x \in S : \A y \in S : x <= y
Max(S) == CHOOSE x \in S : \A y \in S : x >= y
MinOf(a, b) == IF a < b THEN a ELSE b
saturating_sub(a, b) == IF a > b THEN a - b ELSE 0

\* &bytes[start..end] and &bytes[start..]: Rust panics unless start <= end <= len
SliceOk(bytes, start, end) == start <= end /\ end <= Len(bytes)
Slice(bytes, start, end) == SubSeq(bytes, start + 1, end)
SliceFrom(bytes, start) == SubSeq(bytes, start + 1, Len(bytes))

(***************************************************************************)
(* Keywords (ASCII).                                                       *)
(***************************************************************************)
startxref_pattern == <<115, 116, 97, 114, 116, 120, 114, 101, 102>>   \* "startxref"
trailer_pattern == <<116, 114, 97, 105, 108, 101, 114>>               \* "trailer"
kw_Root == <<47, 82, 111, 111, 116>>                                  \* "/Root"
kw_Pages == <<47, 80, 97, 103, 101, 115>>                             \* "/Pages"
kw_Count == <<47, 67, 111, 117, 110, 116>>                            \* "/Count"
kw_CountBare == <<67, 111, 117, 110, 116>>                            \* "Count"
kw_0_obj == <<32, 48, 32, 111, 98, 106>>                              \* " 0 obj"

(***************************************************************************)
(* ByteScanner primitives.                                                 *)
(***************************************************************************)
\* b' ' | b'\t' | b'\r' | b'\n' | b'\0'
is_whitespace(b) == b \in {32, 9, 13, 10, 0}

is_ascii_digit(b) == b >= 48 /\ b <= 57

\* b'(' | b')' | b'<' | b'>' | b'[' | b']', and b':' where the caller skips it
is_special(b, colon) == b \in {40, 41, 60, 62, 91, 93} \/ (colon /\ b = 58)

matches_pattern(bytes, pos, pattern) ==
    IF pos + Len(pattern) > Len(bytes)
    THEN FALSE
    ELSE \A i \in 0..(Len(pattern) - 1) : bytes[pos + i + 1] = pattern[i + 1]

\* for i in lo..hi { if matches_pattern(bytes, i, pattern) ... }: the i that match
MatchPositions(bytes, lo, hi, pattern) ==
    {i \in lo..(hi - 1) : matches_pattern(bytes, i, pattern)}

\* while pos < limit && is_whitespace(bytes[pos]) { pos += 1 }: the final pos
SkipWhitespace(bytes, pos, limit) ==
    IF pos >= limit THEN pos
    ELSE CHOOSE q \in pos..limit :
            /\ (q = limit \/ ~is_whitespace(bytes[q + 1]))
            /\ \A r \in pos..(q - 1) : is_whitespace(bytes[r + 1])

\* while pos < limit && (is_whitespace(bytes[pos]) || matches!(bytes[pos], ...)) { pos += 1 }
SkipSpecial(bytes, pos, limit, colon) ==
    IF pos >= limit THEN pos
    ELSE CHOOSE q \in pos..limit :
            /\ (q = limit \/ ~(is_whitespace(bytes[q + 1]) \/ is_special(bytes[q + 1], colon)))
            /\ \A r \in pos..(q - 1) :
                  is_whitespace(bytes[r + 1]) \/ is_special(bytes[r + 1], colon)

(***************************************************************************)
(* The digit loop every count parser repeats:                              *)
(*   while pos < limit && bytes[pos].is_ascii_digit() {                    *)
(*       found_digit = true;                                               *)
(*       num = num * 10 + (bytes[pos] - b'0') as usize;                    *)
(*       pos += 1;                                                         *)
(*       if num > bound { return None / break }                            *)
(*   }                                                                     *)
(* exceeded: the loop was left by the bound check; overflow: num * 10 + d  *)
(* does not fit usize (a panic in a debug build, a wrapped value in a      *)
(* release build).                                                         *)
(***************************************************************************)
MulAddOverflows(num, d) ==
    num > UsizeMaxDiv10 \/ (num = UsizeMaxDiv10 /\ d > UsizeMaxMod10)

RECURSIVE DigitLoop(_, _, _, _, _, _)
DigitLoop(bytes, pos, limit, num, found, bound) ==
    IF pos < limit /\ is_ascii_digit(bytes[pos + 1])
    THEN IF MulAddOverflows(num, bytes[pos + 1] - 48)
         THEN [num |-> num, found |-> TRUE, exceeded |-> FALSE,
               overflow |-> TRUE, pos |-> pos + 1]
         ELSE LET n2 == num * 10 + (bytes[pos + 1] - 48)
              IN  IF n2 > bound
                  THEN [num |-> n2, found |-> TRUE, exceeded |-> TRUE,
                        overflow |-> FALSE, pos |-> pos + 1]
                  ELSE DigitLoop(bytes, pos + 1, limit, n2, TRUE, bound)
    ELSE [num |-> num, found |-> found, exceeded |-> FALSE, overflow |-> FALSE, pos |-> pos]

\* the bound of extract_first_number and the bound of the /Count parsers
FirstNumberLimit == 100000000
CountLimit == 1000000

extract_first_number(bytes) ==
    LET pos == SkipWhitespace(bytes, 0, Len(bytes))
        r == DigitLoop(bytes, pos, Len(bytes), 0, FALSE, FirstNumberLimit)
    IN  IF r.overflow THEN Panic
        ELSE IF r.exceeded THEN None
        ELSE IF r.found THEN r.num
        ELSE None

find_object_reference(bytes, keyword) ==
    LET hits == MatchPositions(bytes, 0, saturating_sub(Len(bytes), Len(keyword) + 10), keyword)
    IN  IF hits = {} THEN None
        ELSE extract_first_number(SliceFrom(bytes, Min(hits) + Len(keyword)))

\* format!("{}", n): the decimal digits of n
RECURSIVE ToDecimal(_)
ToDecimal(n) == IF n < 10 THEN <<48 + n>> ELSE ToDecimal(n \div 10) \o <<48 + (n % 10)>>

ObjectSectionLen == 2000

\* Option<&[u8]> as a record: found, and the section when found
find_object_by_id(bytes, obj_id) ==
    LET pattern_bytes == ToDecimal(obj_id) \o kw_0_obj
        hits == MatchPositions(bytes, 0, saturating_sub(Len(bytes), Len(pattern_bytes)),
                               pattern_bytes)
    IN  IF hits = {} THEN [found |-> FALSE, section |-> <<>>]
        ELSE LET start == Min(hits)
                 end == MinOf(start + ObjectSectionLen, Len(bytes))
             IN  [found |-> TRUE, section |-> Slice(bytes, start, end)]

find_count_value(bytes) ==
    LET hits == MatchPositions(bytes, 0, saturating_sub(Len(bytes), 10), kw_Count)
    IN  IF hits = {} THEN None
        ELSE extract_first_number(SliceFrom(bytes, Min(hits) + 6))

(***************************************************************************)
(* SpecFollowing: parse_from_end_of_file, in the stages of its body.       *)
(***************************************************************************)
StartxrefWindow == 1024
TrailerScanLimit == 5000
TrailerSectionLen == 2000
MinFileLen == 100

\* the last "startxref" of the end section, as an offset into bytes, or None
\* StartxrefPos with the window's start as the position when no keyword is found
StartxrefPos_OrWindowStart(bytes) ==
    LET search_start == saturating_sub(Len(bytes), StartxrefWindow)
        end_section == SliceFrom(bytes, search_start)
        hits == MatchPositions(end_section, 0,
                               saturating_sub(Len(end_section), Len(startxref_pattern)),
                               startxref_pattern)
    IN  search_start + Max(hits \cup {0})

StartxrefPos(bytes) ==
    LET search_start == saturating_sub(Len(bytes), StartxrefWindow)
        end_section == SliceFrom(bytes, search_start)
        hits == MatchPositions(end_section, 0,
                               saturating_sub(Len(end_section), Len(startxref_pattern)),
                               startxref_pattern)
    IN  IF hits = {} THEN None ELSE search_start + Max(hits)

\* find the Pages object and read its /Count
PagesStage(bytes, pages_obj_id) ==
    LET pages == find_object_by_id(bytes, pages_obj_id)
    IN  IF ~pages.found THEN None ELSE find_count_value(pages.section)

\* find the Root object, read its /Pages reference
RootStage(bytes, root_obj_id) ==
    LET root == find_object_by_id(bytes, root_obj_id)
    IN  IF ~root.found THEN None
        ELSE LET pages_obj_id == find_object_reference(root.section, kw_Pages)
             IN  IF pages_obj_id < 0 THEN pages_obj_id
                 ELSE PagesStage(bytes, pages_obj_id)

\* let from_xref = &bytes[xref_offset..]; find "trailer", read its /Root reference
TrailerStage(bytes, xref_offset) ==
    IF ~SliceOk(bytes, xref_offset, Len(bytes)) THEN Panic
    ELSE
    LET from_xref == SliceFrom(bytes, xref_offset)
        hits == MatchPositions(from_xref, 0,
                    MinOf(saturating_sub(Len(from_xref), Len(trailer_pattern)),
                          TrailerScanLimit),
                    trailer_pattern)
    IN  IF hits = {} THEN None
        ELSE LET trailer_pos == Min(hits)
                 trailer_end == MinOf(trailer_pos + TrailerSectionLen, Len(from_xref))
             IN  IF ~SliceOk(from_xref, trailer_pos, trailer_end) THEN Panic
                 ELSE LET root_obj_id ==
                              find_object_reference(Slice(from_xref, trailer_pos, trailer_end),
                                                    kw_Root)
                      IN  IF root_obj_id < 0 THEN root_obj_id
                          ELSE RootStage(bytes, root_obj_id)

\* XrefOffsetStage without the comparison of the offset with bytes.len()
XrefOffsetStage_Unguarded(bytes, xref_offset) == TrailerStage(bytes, xref_offset)

\* if xref_offset >= bytes.len() { return None; }
XrefOffsetStage(bytes, xref_offset) ==
    IF xref_offset >= Len(bytes) THEN None ELSE TrailerStage(bytes, xref_offset)

parse_from_end_of_file(bytes) ==
    IF Len(bytes) < MinFileLen THEN None
    ELSE LET startxref_pos == StartxrefPos(bytes)
         IN  IF startxref_pos = None THEN None
             ELSE IF ~SliceOk(bytes, startxref_pos + 9, Len(bytes)) THEN Panic
             ELSE LET xref_offset == extract_first_number(SliceFrom(bytes, startxref_pos + 9))
                  IN  IF xref_offset < 0 THEN xref_offset
                      ELSE XrefOffsetStage(bytes, xref_offset)

(***************************************************************************)
(* FallbackHeuristics.                                                     *)
(***************************************************************************)
\* the digits after the keyword of length kwlen matched at i, read up to limit
CountParse(bytes, i, kwlen, limit, colon) ==
    DigitLoop(bytes, SkipSpecial(bytes, i + kwlen, limit, colon), limit, 0, FALSE, CountLimit)

\* the first "/Count" of start..end-10 that is followed by a digit decides
find_count_after_position(bytes, start, end) ==
    LET hits == MatchPositions(bytes, start, saturating_sub(end, 10), kw_Count)
        deciding == {i \in hits : CountParse(bytes, i, 6, end, TRUE).found}
    IN  IF deciding = {} THEN None
        ELSE LET r == CountParse(bytes, Min(deciding), 6, end, TRUE)
             IN  IF r.overflow THEN Panic ELSE IF r.exceeded THEN None ELSE r.num

\* as find_count_after_position, but the digits are read up to bytes.len()
find_count_in_range(bytes, start, end) ==
    LET hits == MatchPositions(bytes, start, saturating_sub(end, 10), kw_Count)
        deciding == {i \in hits : CountParse(bytes, i, 6, Len(bytes), TRUE).found}
    IN  IF deciding = {} THEN None
        ELSE LET r == CountParse(bytes, Min(deciding), 6, Len(bytes), TRUE)
             IN  IF r.overflow THEN Panic ELSE IF r.exceeded THEN None ELSE r.num

\* found_pages && max_count > 0, for the counts the /Pages occurrences gave
MaxOfFound(counts) ==
    IF Panic \in counts THEN Panic
    ELSE LET found == {c \in counts : c >= 0}
             max_count == Max({0} \cup {c \in found : c < CountLimit})
         IN  IF found # {} /\ max_count > 0 THEN max_count ELSE None

TypePagesWindow == 2000

search_type_pages_pattern(bytes) ==
    LET pages == MatchPositions(bytes, 0, saturating_sub(Len(bytes), 20), kw_Pages)
    IN  MaxOfFound({find_count_after_position(bytes, i,
                        MinOf(i + TypePagesWindow, Len(bytes))) : i \in pages})

\* counts.push(num) for every occurrence with found_digit && 0 < num < 1_000_000
PushedCounts(bytes, hits, kwlen, colon) ==
    LET parsed == {CountParse(bytes, i, kwlen, Len(bytes), colon) : i \in hits}
    IN  IF \E r \in parsed : r.overflow THEN {Panic}
        ELSE {r.num : r \in {q \in parsed : q.found /\ q.num > 0 /\ q.num < CountLimit}}

\* counts.iter().max(), None when counts is empty
MaxOfPushed(counts) ==
    IF Panic \in counts THEN Panic
    ELSE IF counts = {} THEN None
    ELSE IF Max(counts) > 0 THEN Max(counts) ELSE None

search_all_count_values(bytes) ==
    MaxOfPushed(PushedCounts(bytes,
        MatchPositions(bytes, 0, saturating_sub(Len(bytes), 20), kw_Count), 6, FALSE))

LargeWindowBack == 2000
LargeWindowForward == 5000

search_pages_with_large_window(bytes) ==
    LET pages == MatchPositions(bytes, 0, saturating_sub(Len(bytes), 50), kw_Pages)
    IN  MaxOfFound(
            {find_count_in_range(bytes, saturating_sub(i, LargeWindowBack), i) : i \in pages}
            \cup
            {find_count_after_position(bytes, i,
                 MinOf(i + LargeWindowForward, Len(bytes))) : i \in pages})

search_count_without_slash(bytes) ==
    LET hits == {i \in MatchPositions(bytes, 0, saturating_sub(Len(bytes), 20), kw_CountBare) :
                    i > 0 /\ (is_whitespace(bytes[i]) \/ bytes[i] = 47)}
    IN  MaxOfPushed(PushedCounts(bytes, hits, 5, TRUE))

(***************************************************************************)
(* Input documents.  A document is the sequence of its indirect objects in *)
(* file order and the object number its trailer gives as /Root; its bytes  *)
(* are the classic layout: header, objects, xref table, trailer,           *)
(* startxref, %%EOF.  A /Count is kept as its digits, so that a count too  *)
(* long for a machine word can be written.                                 *)
(***************************************************************************)
t_header == <<37, 80, 68, 70, 45, 49, 46, 52, 10>>                    \* "%PDF-1.4\n"
t_obj_open == <<32, 48, 32, 111, 98, 106, 10, 60, 60, 32>>            \* " 0 obj\n<< "
t_obj_close == <<32, 62, 62, 10, 101, 110, 100, 111, 98, 106, 10>>    \* " >>\nendobj\n"
\* "/Type /Catalog /Pages "
t_catalog == <<47, 84, 121, 112, 101, 32, 47, 67, 97, 116, 97, 108, 111, 103, 32,
               47, 80, 97, 103, 101, 115, 32>>
t_ref == <<32, 48, 32, 82>>                                           \* " 0 R"
t_outlines_ref == <<32, 47, 79, 117, 116, 108, 105, 110, 101, 115, 32>>  \* " /Outlines "
t_pages == <<47, 84, 121, 112, 101, 32, 47, 80, 97, 103, 101, 115>>   \* "/Type /Pages"
t_parent == <<32, 47, 80, 97, 114, 101, 110, 116, 32>>                \* " /Parent "
t_kids == <<32, 47, 75, 105, 100, 115, 32, 91>>                       \* " /Kids ["
t_kids_close == <<93, 32, 47, 67, 111, 117, 110, 116, 32>>            \* "] /Count "
t_page == <<47, 84, 121, 112, 101, 32, 47, 80, 97, 103, 101>>         \* "/Type /Page"
\* " /MediaBox [0 0 612 792]"
t_mediabox == <<32, 47, 77, 101, 100, 105, 97, 66, 111, 120, 32, 91, 48, 32, 48, 32,
                54, 49, 50, 32, 55, 57, 50, 93>>
\* "/Type /Outlines /Count "
t_outline == <<47, 84, 121, 112, 101, 32, 47, 79, 117, 116, 108, 105, 110, 101, 115,
               32, 47, 67, 111, 117, 110, 116, 32>>
t_xref == <<120, 114, 101, 102, 10, 48, 32>>                          \* "xref\n0 "
\* "0000000000 65535 f \n"
t_free_entry == <<48, 48, 48, 48, 48, 48, 48, 48, 48, 48, 32, 54, 53, 53, 51, 53, 32, 102, 32, 10>>
t_used_entry == <<32, 48, 48, 48, 48, 48, 32, 110, 32, 10>>           \* " 00000 n \n"
\* "trailer\n<< /Size "
t_trailer == <<116, 114, 97, 105, 108, 101, 114, 10, 60, 60, 32, 47, 83, 105, 122, 101, 32>>
t_root == <<32, 47, 82, 111, 111, 116, 32>>                           \* " /Root "
t_trailer_close == <<32, 48, 32, 82, 32, 62, 62, 10>>                 \* " 0 R >>\n"
t_startxref == <<115, 116, 97, 114, 116, 120, 114, 101, 102, 10>>     \* "startxref\n"
t_eof == <<10, 37, 37, 69, 79, 70, 10>>                               \* "\n%%EOF\n"

Obj(id, kind, ref, kids, count, outlines) ==
    [id |-> id, kind |-> kind, ref |-> ref, kids |-> kids, count |-> count,
     outlines |-> outlines]

RECURSIVE KidsRefs(_)
KidsRefs(kids) ==
    IF kids = <<>> THEN <<>>
    ELSE ToDecimal(Head(kids)) \o t_ref
         \o (IF Len(kids) > 1 THEN <<32>> ELSE <<>>) \o KidsRefs(Tail(kids))

ObjBody(o) ==
    CASE o.kind = "catalog" ->
            t_catalog \o ToDecimal(o.ref) \o t_ref
            \o (IF o.outlines > 0 THEN t_outlines_ref \o ToDecimal(o.outlines) \o t_ref
                ELSE <<>>)
      [] o.kind = "pages" ->
            t_pages
            \o (IF o.ref > 0 THEN t_parent \o ToDecimal(o.ref) \o t_ref ELSE <<>>)
            \o t_kids \o KidsRefs(o.kids) \o t_kids_close \o o.count
      [] o.kind = "page" ->
            t_page \o t_parent \o ToDecimal(o.ref) \o t_ref \o t_mediabox
      [] o.kind = "outline" -> t_outline \o o.count

RenderObj(o) == ToDecimal(o.id) \o t_obj_open \o ObjBody(o) \o t_obj_close

RECURSIVE RenderObjs(_)
RenderObjs(objs) ==
    IF objs = <<>> THEN <<>> ELSE RenderObj(Head(objs)) \o RenderObjs(Tail(objs))

\* the byte offset of the k-th object of the file
ObjOffset(objs, k) == Len(t_header) + Len(RenderObjs(SubSeq(objs, 1, k - 1)))

ZeroPad10(digits) == [i \in 1..(10 - Len(digits)) |-> 48] \o digits

MaxId(objs) == Max({0} \cup {objs[k].id : k \in 1..Len(objs)})

XrefEntry(objs, id) ==
    LET at == {k \in 1..Len(objs) : objs[k].id = id}
    IN  IF at = {} THEN t_free_entry
        ELSE ZeroPad10(ToDecimal(ObjOffset(objs, Min(at)))) \o t_used_entry

RECURSIVE XrefEntries(_, _, _)
XrefEntries(objs, id, last) ==
    IF id > last THEN <<>> ELSE XrefEntry(objs, id) \o XrefEntries(objs, id + 1, last)

\* the bytes of a document whose startxref line carries the digits xref_digits
RenderWith(doc, xref_digits) ==
    t_header \o RenderObjs(doc.objs)
    \o t_xref \o ToDecimal(MaxId(doc.objs) + 1) \o <<10>>
    \o XrefEntries(doc.objs, 0, MaxId(doc.objs))
    \o t_trailer \o ToDecimal(MaxId(doc.objs) + 1) \o t_root \o ToDecimal(doc.root)
    \o t_trailer_close \o t_startxref \o xref_digits \o t_eof

XrefOffset(doc) == Len(t_header) + Len(RenderObjs(doc.objs))

Render(doc) == RenderWith(doc, ToDecimal(XrefOffset(doc)))

(***************************************************************************)
(* The documents and buffers the model feeds to the program.               *)
(***************************************************************************)
MaxPages == 2           \* leaf pages of a flat document
MaxOutlineCount == 3    \* the /Count an outline dictionary carries
MaxTailCut == 24        \* bytes a truncation removes from the end of the file
MaxObjCut == 7          \* bytes a truncation removes before the end of an object
MaxWindowSlack == 5     \* positions tried around the end of the search window

\* object numbering: the number of the j-th object of the document's logical order
\* (1 catalog, 2 root Pages, ...): 1, 2, 3, ... or 10, 11, 12, ... or 1, 2, 11, 12, ...
Schemes == {"plain", "high", "mixed"}
IdOf(scheme, j) ==
    CASE scheme = "plain" -> j
      [] scheme = "high" -> j + 9
      [] scheme = "mixed" -> IF j <= 2 THEN j ELSE j + 8

\* file order: ascending, descending, or one object moved to the front or the back
Orders(n) ==
    {[kind |-> "asc", j |-> 0], [kind |-> "desc", j |-> 0]}
    \cup {[kind |-> "front", j |-> j] : j \in 2..n}
    \cup {[kind |-> "back", j |-> j] : j \in 1..(n - 1)}

Without(objs, j) == SubSeq(objs, 1, j - 1) \o SubSeq(objs, j + 1, Len(objs))

Reorder(objs, order) ==
    CASE order.kind = "asc" -> objs
      [] order.kind = "desc" -> [k \in 1..Len(objs) |-> objs[Len(objs) + 1 - k]]
      [] order.kind = "front" -> <<objs[order.j]>> \o Without(objs, order.j)
      [] order.kind = "back" -> Without(objs, order.j) \o <<objs[order.j]>>

\* a flat page tree: catalog, one Pages node, k leaf pages, and an outline
\* dictionary when outline_digits is not empty
FlatObjs(k, count_digits, outline_digits, scheme) ==
    <<Obj(IdOf(scheme, 1), "catalog", IdOf(scheme, 2), <<>>, <<>>,
          IF outline_digits = <<>> THEN 0 ELSE IdOf(scheme, k + 3)),
      Obj(IdOf(scheme, 2), "pages", 0, [j \in 1..k |-> IdOf(scheme, j + 2)],
          count_digits, 0)>>
    \o [j \in 1..k |-> Obj(IdOf(scheme, j + 2), "page", IdOf(scheme, 2), <<>>, <<>>, 0)]
    \o (IF outline_digits = <<>> THEN <<>>
        ELSE <<Obj(IdOf(scheme, k + 3), "outline", 0, <<>>, outline_digits, 0)>>)

\* a root Pages node with /Count 5 and two kid Pages nodes with /Count 3 and /Count 2
NestedObjs(scheme) ==
    LET id(j) == IdOf(scheme, j)
    IN  <<Obj(id(1), "catalog", id(2), <<>>, <<>>, 0),
          Obj(id(2), "pages", 0, <<id(3), id(4)>>, ToDecimal(5), 0),
          Obj(id(3), "pages", id(2), <<id(5), id(6), id(7)>>, ToDecimal(3), 0),
          Obj(id(4), "pages", id(2), <<id(8), id(9)>>, ToDecimal(2), 0)>>
        \o [j \in 1..5 |-> Obj(id(j + 4), "page", IF j <= 3 THEN id(3) ELSE id(4),
                               <<>>, <<>>, 0)]

Doc(objs, scheme, order, shape) ==
    [objs |-> Reorder(objs, order), root |-> IdOf(scheme, 1), shape |-> shape]

NoDoc == [objs |-> <<>>, root |-> 0, shape |-> "none"]

OutlineDigits == {<<>>} \cup {ToDecimal(c) : c \in 1..MaxOutlineCount}

\* well-formed documents with a flat page tree
FlatDocs ==
    UNION {UNION {UNION {
        {Doc(FlatObjs(k, ToDecimal(k), out, scheme), scheme, order, "flat") :
            order \in Orders(k + 2 + (IF out = <<>> THEN 0 ELSE 1))}
        : scheme \in Schemes} : out \in OutlineDigits} : k \in 1..MaxPages}

\* well-formed documents with a two-level page tree
NestedDocs ==
    UNION {{Doc(NestedObjs(scheme), scheme, order, "nested") : order \in Orders(9)}
           : scheme \in Schemes}

\* the /Count values a degenerate root Pages node declares: 0, 1000000, 1000001,
\* 2000000, 100000000, 100000001, 99999999999999
DeclaredCounts ==
    {<<48>>,
     <<49, 48, 48, 48, 48, 48, 48>>,
     <<49, 48, 48, 48, 48, 48, 49>>,
     <<50, 48, 48, 48, 48, 48, 48>>,
     <<49, 48, 48, 48, 48, 48, 48, 48, 48>>,
     <<49, 48, 48, 48, 48, 48, 48, 48, 49>>,
     <<57, 57, 57, 57, 57, 57, 57, 57, 57, 57, 57, 57, 57, 57>>}

DeclaredDocs ==
    {Doc(FlatObjs(1, digits, <<>>, "plain"), "plain", [kind |-> "asc", j |-> 0], "declared")
        : digits \in DeclaredCounts}

Fill(n) == [i \in 1..n |-> 120]     \* "xxx...x"

Input(kind, doc, bytes) == [kind |-> kind, doc |-> doc, bytes |-> bytes]

PdfInputs ==
    {Input("pdf", d, Render(d)) : d \in FlatDocs \cup NestedDocs \cup DeclaredDocs}

\* the documents whose truncations are tried: ascending order, and the root
\* Pages node as the last object of the file
TruncBase ==
    {Doc(FlatObjs(MaxPages, ToDecimal(MaxPages), <<>>, "plain"), "plain", order, "flat")
        : order \in {[kind |-> "asc", j |-> 0], [kind |-> "back", j |-> 2]}}
    \cup {Doc(NestedObjs("plain"), "plain", [kind |-> "back", j |-> 2], "nested")}

\* the lengths a file is cut to: near its end, and near the end of each object
Cuts(doc) ==
    {Len(Render(doc)) - j : j \in 1..MaxTailCut}
    \cup {ObjOffset(doc.objs, k + 1) - j : k \in 1..Len(doc.objs), j \in 0..MaxObjCut}

TruncInputs ==
    UNION {{Input("trunc", d, SubSeq(Render(d), 1, n)) : n \in Cuts(d)} : d \in TruncBase}

\* a well-formed file whose startxref line is overwritten: offsets before, at and
\* after the end of the file, and 99999999, 100000001, 4294967296, 99999999999999
XrefBase == Doc(FlatObjs(1, ToDecimal(1), <<>>, "plain"), "plain", [kind |-> "asc", j |-> 0], "flat")

XrefDigits ==
    {ToDecimal(n) : n \in {0, XrefOffset(XrefBase) + 1}
                          \cup ((Len(Render(XrefBase)) - 2)..(Len(Render(XrefBase)) + 2))}
    \cup {<<>>,
          <<57, 57, 57, 57, 57, 57, 57, 57>>,
          <<49, 48, 48, 48, 48, 48, 48, 48, 49>>,
          <<52, 50, 57, 52, 57, 54, 55, 50, 57, 54>>,
          <<57, 57, 57, 57, 57, 57, 57, 57, 57, 57, 57, 57, 57, 57>>}

XrefInputs == {Input("xrefoff", XrefBase, RenderWith(XrefBase, x)) : x \in XrefDigits}

\* "/Pages", a gap, "/Count 123456 ", and a tail: the /Count lies near the end of
\* the window search_type_pages_pattern searches after the /Pages
WindowInputs ==
    {Input("window", NoDoc,
           kw_Pages \o Fill(gap) \o kw_Count \o <<32, 49, 50, 51, 52, 53, 54, 32>> \o Fill(30))
        : gap \in (TypePagesWindow - 20)..(TypePagesWindow - 20 + MaxWindowSlack)}

\* small buffers: empty, a bare keyword, a keyword at the very end, "/Pages /Count 5",
\* " Count: 42", "/Count: 5 /Pages", "/Count 5 /Pages", a startxref with nothing, or
\* a small offset, after it
RawInputs ==
    {Input("raw", NoDoc, b) : b \in
        {<<>>,
         kw_Count,
         kw_Pages \o kw_Count \o <<32, 53>>,
         Fill(30) \o kw_Pages \o kw_Count,
         kw_Pages \o <<32>> \o kw_Count \o <<32, 53>> \o Fill(20),
         kw_Pages \o <<32>> \o kw_Count \o <<32, 48, 32>> \o kw_Count \o <<32, 53>> \o Fill(20),
         <<32>> \o kw_CountBare \o <<58, 32, 52, 50>> \o Fill(20),
         kw_Count \o <<58, 32, 53, 32, 32>> \o kw_Pages \o Fill(50),
         Fill(20) \o kw_Count \o <<32, 55, 32>> \o Fill(12),
         kw_Count \o <<32, 53, 32>> \o kw_Pages \o Fill(50),
         Fill(100) \o startxref_pattern,
         Fill(100) \o startxref_pattern \o <<10>>,
         Fill(100) \o startxref_pattern \o <<10, 53>>,
         Fill(100) \o startxref_pattern \o <<10, 53, 10>> \o trailer_pattern}}

Inputs == PdfInputs \cup TruncInputs \cup XrefInputs \cup WindowInputs \cup RawInputs

(***************************************************************************)
(* extract_mediabox_ultra_fast and parse_float (ultra_fast_pdf.rs).  An    *)
(* f64 read from decimal digits is the exact fraction n / d.               *)
(***************************************************************************)
kw_MediaBox == <<47, 77, 101, 100, 105, 97, 66, 111, 120>>

F64(n, d) == [n |-> n, d |-> d]

RECURSIVE DigitsToInt(_, _)
DigitsToInt(digits, num) ==
    IF digits = <<>> THEN num ELSE DigitsToInt(Tail(digits), num * 10 + (Head(digits) - 48))

RECURSIVE Pow10(_)
Pow10(k) == IF k = 0 THEN 1 ELSE 10 * Pow10(k - 1)

\* s.parse::<f64>() of a token of digits and '.', with its sign: digits with at
\* most one '.' and at least one digit
parse_f64(negative, token) ==
    LET dots == {k \in 1..Len(token) : token[k] = 46}
        digits == SelectSeq(token, is_ascii_digit)
        after == IF dots = {} THEN 0 ELSE Len(token) - Min(dots)
    IN  IF Cardinality(dots) > 1 \/ digits = <<>> THEN <<>>
        ELSE <<F64((IF negative THEN -1 ELSE 1) * DigitsToInt(digits, 0), Pow10(after))>>

\* Some((num, new_pos)) as <<num, new_pos>>, None as <<>>
parse_float(bytes, start, end) ==
    LET negative == start < end /\ bytes[start + 1] = 45
        from == IF negative THEN start + 1 ELSE start
        stop == IF from >= end THEN from
                ELSE CHOOSE q \in from..end :
                        /\ (q = end \/ ~(is_ascii_digit(bytes[q + 1]) \/ bytes[q + 1] = 46))
                        /\ \A r \in from..(q - 1) :
                              is_ascii_digit(bytes[r + 1]) \/ bytes[r + 1] = 46
        num_str == Slice(bytes, from, stop)
        num == parse_f64(negative, num_str)
    IN  IF ~negative /\ num_str = <<>> THEN <<>>
        ELSE IF num = <<>> THEN <<>>
        ELSE <<num[1], stop>>

\* the loop that collects up to four numbers; the byte at pos is read after the
\* whitespace was skipped, without comparing pos to search_end
RECURSIVE NumbersLoop(_, _, _, _)
NumbersLoop(bytes, pos, search_end, numbers) ==
    IF ~(Len(numbers) < 4 /\ pos < search_end) THEN [panic |-> FALSE, numbers |-> numbers]
    ELSE LET p == SkipWhitespace(bytes, pos, search_end)
         IN  IF p >= Len(bytes) THEN [panic |-> TRUE, numbers |-> numbers]
             ELSE IF bytes[p + 1] = 93 THEN [panic |-> FALSE, numbers |-> numbers]
             ELSE LET parsed == parse_float(bytes, p, search_end)
                  IN  IF parsed = <<>> THEN [panic |-> FALSE, numbers |-> numbers]
                      ELSE NumbersLoop(bytes, parsed[2], search_end,
                                       Append(numbers, parsed[1]))

\* (b - a).abs() of two fractions
AbsDiff(b, a) ==
    LET n == b.n * a.d - a.n * b.d
    IN  F64(IF n < 0 THEN -n ELSE n, a.d * b.d)

MediaBoxLimit == 10000
MediaBoxMargin == 50
MediaBoxWindow == 100

InBoxRange(x) == x.n > 0 /\ x.n < MediaBoxLimit * x.d

MediaBoxResult(status, size) == [status |-> status, size |-> size]

\* the body of the loop for one i where "/MediaBox" matches: a panic, the
\* dimensions, or "continue" with the next i
MediaBoxAt(bytes, i) ==
    LET start == i + Len(kw_MediaBox)
        search_end == MinOf(start + MediaBoxWindow, Len(bytes))
        brackets == {p \in start..(search_end - 1) : bytes[p + 1] = 91}
    IN  IF brackets = {} THEN MediaBoxResult("continue", <<>>)
        ELSE LET loop == NumbersLoop(bytes, Min(brackets) + 1, search_end, <<>>)
                 numbers == loop.numbers
             IN  IF loop.panic THEN MediaBoxResult("panic", <<>>)
                 ELSE IF Len(numbers) < 4 THEN MediaBoxResult("continue", <<>>)
                 ELSE LET width == AbsDiff(numbers[3], numbers[1])
                          height == AbsDiff(numbers[4], numbers[2])
                      IN  IF InBoxRange(width) /\ InBoxRange(height)
                          THEN MediaBoxResult("some", <<width, height>>)
                          ELSE MediaBoxResult("continue", <<>>)

extract_mediabox_ultra_fast(bytes) ==
    LET matches == MatchPositions(bytes, 0, saturating_sub(Len(bytes), MediaBoxMargin),
                                  kw_MediaBox)
        decided == {i \in matches : MediaBoxAt(bytes, i).status # "continue"}
    IN  IF decided = {} THEN MediaBoxResult("none", <<>>)
        ELSE MediaBoxAt(bytes, Min(decided))

(***************************************************************************)
(* State.  One behaviour is one call of count_pages_ultra_fast on one      *)
(* buffer.                                                                 *)
(***************************************************************************)
VARIABLES
    kind,       \* which family of inputs the buffer is from
    doc,        \* the document the buffer was rendered from (NoDoc for a raw buffer)
    bytes,      \* the buffer: bytes: &[u8]
    pc,         \* where count_pages_ultra_fast is
    result,     \* what count_pages_ultra_fast returns
    invoked,    \* the strategies called so far, in call order
    outcomes,   \* what each of them returned, in the same order
    js,         \* what the awaited count_pdf_pages_js settled with
    estimate    \* what an estimator returned

vars == <<kind, doc, bytes, pc, result, invoked, outcomes, js, estimate>>

NoReply == [tag |-> "none", page_count |-> [t |-> "null", v |-> 0],
            width_pt |-> [t |-> "null", v |-> 0], height_pt |-> [t |-> "null", v |-> 0]]

NoEstimate == [status |-> "none", page_count |-> 0, page_sizes |-> <<>>, notes |-> <<>>,
               error |-> <<>>, detected |-> <<>>]

Init ==
    /\ \E inp \in Inputs : kind = inp.kind /\ doc = inp.doc /\ bytes = inp.bytes
    /\ pc = "start"
    /\ result = None
    /\ invoked = <<>>
    /\ outcomes = <<>>
    /\ js = NoReply
    /\ estimate = NoEstimate

\* if let Some(count) = strategy(bytes) { return Some(count); }  and fall through
\* to the statement at `next` otherwise; a panic unwinds out of the call
Try(label, name, value, next) ==
    /\ pc = label
    /\ invoked' = Append(invoked, name)
    /\ outcomes' = Append(outcomes, value)
    /\ pc' = IF value = Panic THEN "panicked" ELSE IF value >= 0 THEN "done" ELSE next
    /\ result' = IF value >= 0 THEN value ELSE None
    /\ UNCHANGED <<kind, doc, bytes, js, estimate>>

RunSpecFollowing ==
    Try("start", "SpecFollowing", parse_from_end_of_file(bytes), "fallback1")

\* the first fallback with GlobalMaxCount in the place of TypePagesProximity
RunTypePagesProximity_Swapped ==
    Try("fallback1", "GlobalMaxCount", search_all_count_values(bytes), "fallback2")

RunTypePagesProximity ==
    Try("fallback1", "TypePagesProximity", search_type_pages_pattern(bytes), "fallback2")

RunGlobalMaxCount ==
    Try("fallback2", "GlobalMaxCount", search_all_count_values(bytes), "fallback3")

RunExpandedWindow ==
    Try("fallback3", "ExpandedWindow", search_pages_with_large_window(bytes), "fallback4")

\* the last strategy: its None is the None the function returns
RunCountWithoutSlash ==
    Try("fallback4", "CountWithoutSlash", search_count_without_slash(bytes), "done")

Next ==
    \/ RunSpecFollowing
    \/ RunTypePagesProximity
    \/ RunGlobalMaxCount
    \/ RunExpandedWindow
    \/ RunCountWithoutSlash

Spec == Init /\ [][Next]_vars

(***************************************************************************)
(* The strategies one by one: every strategy is applied to the buffer,     *)
(* whatever the others returned, and FullParse to a complete document.     *)
(***************************************************************************)
ObjById(d, id) == d.objs[Min({k \in 1..Len(d.objs) : d.objs[k].id = id})]

\* lopdf's Document::get_pages: the leaf pages reached from the catalog's /Pages
RECURSIVE PagesUnder(_, _)
PagesUnder(d, id) ==
    LET o == ObjById(d, id)
        RECURSIVE Sum(_)
        Sum(kids) == IF kids = <<>> THEN 0 ELSE PagesUnder(d, Head(kids)) + Sum(Tail(kids))
    IN  IF o.kind = "page" THEN 1 ELSE Sum(o.kids)

FullParse(d) == PagesUnder(d, ObjById(d, d.root).ref)

Apply(label, name, value, next) ==
    /\ pc = label
    /\ invoked' = Append(invoked, name)
    /\ outcomes' = Append(outcomes, value)
    /\ pc' = next
    /\ UNCHANGED <<kind, doc, bytes, result, js, estimate>>

ApplySpecFollowing ==
    Apply("each1", "SpecFollowing", parse_from_end_of_file(bytes), "each2")

ApplyTypePagesProximity ==
    Apply("each2", "TypePagesProximity", search_type_pages_pattern(bytes), "each3")

ApplyGlobalMaxCount ==
    Apply("each3", "GlobalMaxCount", search_all_count_values(bytes), "each4")

ApplyExpandedWindow ==
    Apply("each4", "ExpandedWindow", search_pages_with_large_window(bytes), "each5")

ApplyCountWithoutSlash ==
    Apply("each5", "CountWithoutSlash", search_count_without_slash(bytes), "each6")

ApplyFullParse ==
    /\ kind = "pdf"
    /\ Apply("each6", "FullParse", FullParse(doc), "each_done")

InitStrategies ==
    /\ \E inp \in Inputs : kind = inp.kind /\ doc = inp.doc /\ bytes = inp.bytes
    /\ pc = "each1"
    /\ result = None
    /\ invoked = <<>>
    /\ outcomes = <<>>
    /\ js = NoReply
    /\ estimate = NoEstimate

NextStrategies ==
    \/ ApplySpecFollowing
    \/ ApplyTypePagesProximity
    \/ ApplyGlobalMaxCount
    \/ ApplyExpandedWindow
    \/ ApplyCountWithoutSlash
    \/ ApplyFullParse

SpecStrategies == InitStrategies /\ [][NextStrategies]_vars

(***************************************************************************)
(* The estimators (estimators.rs).  An f64 of millimetres is the exact     *)
(* fraction n / d; an Option is a sequence of at most one element.         *)
(***************************************************************************)
Mm(n, d) == [n |-> n, d |-> d]

a4_mm == <<Mm(210, 1), Mm(297, 1)>>
letter_mm == <<Mm(2159, 10), Mm(2794, 10)>>
slide_mm == <<Mm(254, 1), Mm(1905, 10)>>

\* pt / 72.0 * 25.4
mm_from_pt(pt) == Mm(pt * 254, 720)

PageSizeMm(size) == [width_mm |-> size[1], height_mm |-> size[2]]

\* vec![x; n]
Repeat(x, n) == [i \in 1..n |-> x]

unwrap_or(opt, default) == IF opt = <<>> THEN default ELSE opt[1]

EstimateOptions(default_paper, custom_paper_mm, chars_per_page, rows_per_page) ==
    [default_paper |-> default_paper, custom_paper_mm |-> custom_paper_mm,
     chars_per_page |-> chars_per_page, rows_per_page |-> rows_per_page]

\* impl Default for EstimateOptions
DefaultOptions == EstimateOptions(<<"A4">>, <<>>, <<>>, <<>>)

\* Ok(EstimateResult { page_count, page_sizes, notes })
EstimateResult(page_count, page_sizes, notes) ==
    [status |-> "ok", page_count |-> page_count, page_sizes |-> page_sizes,
     notes |-> notes, error |-> <<>>, detected |-> <<>>]

\* Err(EstimatorError::variant(msg))
EstimatorError(variant, msg) ==
    [status |-> "err", page_count |-> 0, page_sizes |-> <<>>, notes |-> <<>>,
     error |-> <<variant, msg>>, detected |-> <<>>]

\* a division by zero, or a subtraction below zero, unwinds out of the estimator
Panicked ==
    [status |-> "panic", page_count |-> 0, page_sizes |-> <<>>, notes |-> <<>>,
     error |-> <<>>, detected |-> <<>>]

\* custom_paper_mm, then default_paper ("Letter" | "letter" => letter_mm(), _ => a4_mm())
PaperSize(options) ==
    IF options.custom_paper_mm # <<>> THEN options.custom_paper_mm[1]
    ELSE IF options.default_paper # <<>>
         THEN (IF options.default_paper[1] \in {"Letter", "letter"} THEN letter_mm ELSE a4_mm)
         ELSE a4_mm

\* std::str::from_utf8: every byte is the lead byte of a well-formed sequence or
\* one of that sequence's continuation bytes
IsContinuation(b) == b >= 128 /\ b <= 191

SeqLen(b) ==
    IF b < 128 THEN 1
    ELSE IF b >= 194 /\ b <= 223 THEN 2
    ELSE IF b >= 224 /\ b <= 239 THEN 3
    ELSE IF b >= 240 /\ b <= 244 THEN 4
    ELSE 0

SecondOk(lead, b) ==
    CASE lead = 224 -> b >= 160 /\ b <= 191
      [] lead = 237 -> b >= 128 /\ b <= 159
      [] lead = 240 -> b >= 144 /\ b <= 191
      [] lead = 244 -> b >= 128 /\ b <= 143
      [] OTHER -> IsContinuation(b)

WellFormedAt(text, i) ==
    LET n == SeqLen(text[i])
    IN  /\ n > 0
        /\ i + n - 1 <= Len(text)
        /\ n >= 2 => SecondOk(text[i], text[i + 1])
        /\ \A j \in (i + 2)..(i + n - 1) : IsContinuation(text[j])

Utf8Valid(text) ==
    LET leads == {i \in 1..Len(text) : ~IsContinuation(text[i])}
    IN  /\ \A i \in leads : WellFormedAt(text, i)
        /\ \A j \in (1..Len(text)) \ leads :
              \E i \in leads : i < j /\ j <= i + SeqLen(text[i]) - 1

\* s.chars().count() of a valid text
CharCount(text) == Cardinality({i \in 1..Len(text) : ~IsContinuation(text[i])})

DefaultCharsPerPage == 1800
DefaultRowsPerPage == 40
ParagraphsPerPage == 25

\* usize::MAX, the largest chars_per_page a caller can supply.  A usize n above
\* the integers of the checker is kept as n - 2^w, its value in two's
\* complement: usize::MAX is -1, usize::MAX - 1 is -2.
UsizeMax == -1

\* the mathematical value of ceil(chars / chars_per_page), chars_per_page >= 1
CeilDiv(chars, chars_per_page) ==
    IF chars_per_page > 0 THEN (chars + chars_per_page - 1) \div chars_per_page
    ELSE IF chars = 0 THEN 0 ELSE 1

\* (chars + chars_per_page - 1) / chars_per_page in usize arithmetic.  With
\* overflow checks (a debug build) a sum beyond usize::MAX or below 0 panics;
\* without them it wraps.  A division by zero panics in both.
PagesOf(chars, chars_per_page, overflow_checks) ==
    IF chars_per_page = 0 THEN Panic
    ELSE IF chars_per_page > 0 THEN (chars + chars_per_page - 1) \div chars_per_page
    ELSE IF chars + chars_per_page - 1 >= 0
         THEN \* the sum passes usize::MAX; wrapped it is chars + chars_per_page - 1,
              \* which is below chars_per_page
              IF overflow_checks THEN Panic ELSE 0
         ELSE IF chars = 0 THEN 0 ELSE 1

\* a variant that counts the characters of a lossy conversion instead of
\* returning early on invalid UTF-8
estimate_text_pages_Lossy(text, options, overflow_checks) ==
    LET chars == CharCount(text)
        chars_per_page == unwrap_or(options.chars_per_page, DefaultCharsPerPage)
        pages == PagesOf(chars, chars_per_page, overflow_checks)
    IN  IF pages = Panic THEN Panicked
        ELSE EstimateResult(pages, Repeat(PageSizeMm(PaperSize(options)), pages),
                            <<<<"chars", chars, "chars_per_page", chars_per_page>>>>)

estimate_text_pages(text, options, overflow_checks) ==
    IF ~Utf8Valid(text) THEN EstimateResult(0, <<>>, <<<<"Text not valid UTF-8">>>>)
    ELSE LET chars == CharCount(text)
             chars_per_page == unwrap_or(options.chars_per_page, DefaultCharsPerPage)
             pages == PagesOf(chars, chars_per_page, overflow_checks)
         IN  IF pages = Panic THEN Panicked
             ELSE EstimateResult(pages, Repeat(PageSizeMm(PaperSize(options)), pages),
                                 <<<<"chars", chars, "chars_per_page", chars_per_page>>>>)

estimate_markdown_pages(text, options, overflow_checks) ==
    LET res == estimate_text_pages(text, options, overflow_checks)
    IN  IF res.status = "panic" THEN res
        ELSE [res EXCEPT !.notes = Append(@, <<"Markdown parsed as text">>)]

\* SheetSizes with one size for the sheet, however many pages it has
SheetSizes_One(size, pages_for_sheet) == <<PageSizeMm(size)>>

\* per_page_sizes.extend(repeat(PageSizeMm { .. }).take(pages_for_sheet))
SheetSizes(size, pages_for_sheet) == Repeat(PageSizeMm(size), pages_for_sheet)

\* the index after the last row with a cell that is not Data::Empty, 0 if none
LastRowIndex(rows) == Max({0} \cup {r \in 1..Len(rows) : rows[r]})

\* for sheet_name in xlsx.sheet_names() { ... }
RECURSIVE SheetLoop(_, _, _, _)
SheetLoop(sheets, rows_per_page, size, acc) ==
    IF sheets = <<>> \/ acc.status = "panic" THEN acc
    ELSE LET sheet == Head(sheets)
         IN  IF ~sheet.readable
             THEN SheetLoop(Tail(sheets), rows_per_page, size,
                      [acc EXCEPT !.notes = Append(@, <<"Could not read sheet", sheet.name>>)])
             ELSE IF rows_per_page = 0 THEN Panicked
             ELSE LET last_row_index == LastRowIndex(sheet.rows)
                      pages_for_sheet ==
                          (last_row_index + rows_per_page - 1) \div rows_per_page
                  IN  SheetLoop(Tail(sheets), rows_per_page, size,
                          IF pages_for_sheet > 0
                          THEN [acc EXCEPT
                                  !.page_count = @ + pages_for_sheet,
                                  !.page_sizes = @ \o SheetSizes(size, pages_for_sheet),
                                  !.notes = Append(@, <<"Sheet rows pages", sheet.name,
                                                        last_row_index, pages_for_sheet>>)]
                          ELSE [acc EXCEPT
                                  !.notes = Append(@, <<"Sheet empty", sheet.name>>)])

estimate_xlsx_pages(workbook, options) ==
    IF ~workbook.opens THEN EstimatorError("XlsxError", "open")
    ELSE LET res == SheetLoop(workbook.sheets,
                              unwrap_or(options.rows_per_page, DefaultRowsPerPage),
                              PaperSize(options), EstimateResult(0, <<>>, <<>>))
         IN  IF res.status = "ok" /\ res.page_count = 0
             THEN [res EXCEPT !.notes = Append(@, <<"Workbook appears empty or unreadable">>)]
             ELSE res

kw_Type == <<47, 84, 121, 112, 101>>                                           \* "/Type"
kw_Type_Page == <<47, 84, 121, 112, 101, 32, 47, 80, 97, 103, 101>>          \* "/Type /Page"
kw_TypePage == <<47, 84, 121, 112, 101, 47, 80, 97, 103, 101>>               \* "/Type/Page"

\* the "/Type" at i is "/Type /Page" or "/Type/Page" and no 's' follows the "Page"
IsPageType(text, i) ==
    LET after_page == IF matches_pattern(text, i, kw_Type_Page) THEN i + 11 ELSE i + 10
    IN  /\ matches_pattern(text, i, kw_Type_Page) \/ matches_pattern(text, i, kw_TypePage)
        /\ ~(after_page < Len(text) /\ text[after_page + 1] = 115)

estimate_pdf_pages(text, options) ==
    LET page_count == Cardinality({i \in MatchPositions(text, 0, Len(text), kw_Type) :
                                       IsPageType(text, i)})
    IN  IF page_count = 0 THEN EstimatorError("PdfError", "No pages found in PDF")
        ELSE EstimateResult(page_count, Repeat(PageSizeMm(a4_mm), page_count),
                 <<<<"PDF has pages", page_count>>, <<"use estimate_pdf_with_pdfjs">>>>)

\* text.parse::<usize>(): an optional '+', then one or more digits, no overflow
RECURSIVE DigitsValue(_, _)
DigitsValue(digits, num) ==
    IF digits = <<>> THEN <<num>>
    ELSE IF ~is_ascii_digit(Head(digits)) \/ MulAddOverflows(num, Head(digits) - 48) THEN <<>>
    ELSE DigitsValue(Tail(digits), num * 10 + (Head(digits) - 48))

parse_usize(text) ==
    LET digits == IF text # <<>> /\ Head(text) = 43 THEN Tail(text) ELSE text
    IN  IF digits = <<>> THEN <<>> ELSE DigitsValue(digits, 0)

XmlEvent(type, name, text) == [type |-> type, name |-> name, text |-> text]

\* the loop over reader.read_event_into of parse_pages_from_app_xml (tag "Pages")
\* and parse_slides_from_app_xml (tag "Slides"); the end of the events is Event::Eof
RECURSIVE AppXmlLoop(_, _, _)
AppXmlLoop(events, tag, in_tag) ==
    IF events = <<>> THEN EstimatorError("General", "No count found in app.xml")
    ELSE LET e == Head(events)
         IN  CASE e.type \in {"Start", "Empty"} ->
                    AppXmlLoop(Tail(events), tag, in_tag \/ e.name = tag)
               [] e.type = "Text" ->
                    IF ~in_tag THEN AppXmlLoop(Tail(events), tag, in_tag)
                    ELSE IF parse_usize(e.text) = <<>>
                         THEN EstimatorError("General", "Failed to parse count")
                         ELSE EstimateResult(parse_usize(e.text)[1], <<>>, <<>>)
               [] e.type = "End" ->
                    AppXmlLoop(Tail(events), tag, in_tag /\ e.name # tag)
               [] e.type = "Err" -> EstimatorError("General", "XML parse error")
               [] OTHER -> AppXmlLoop(Tail(events), tag, in_tag)

parse_pages_from_app_xml(events) == AppXmlLoop(events, "Pages", FALSE)

parse_slides_from_app_xml(events) == AppXmlLoop(events, "Slides", FALSE)

estimate_docx_from_content(archive, options) ==
    IF archive.document_xml = <<>>
    THEN EstimatorError("General", "Failed to read DOCX content")
    ELSE LET contents == archive.document_xml[1]
         IN  IF ~contents.readable
             THEN EstimatorError("General", "Failed to read document.xml")
             ELSE LET paragraphs == contents.p_open + contents.p_plain
                      estimated_pages ==
                          IF contents.page_breaks > 0 THEN contents.page_breaks + 1
                          ELSE Max({1, (paragraphs + ParagraphsPerPage - 1)
                                           \div ParagraphsPerPage})
                  IN  EstimateResult(estimated_pages,
                          Repeat(PageSizeMm(PaperSize(options)), estimated_pages),
                          <<<<"DOCX estimated from content", estimated_pages>>,
                            <<"may not be exact">>>>)

estimate_docx_pages(archive, options) ==
    IF ~archive.zip_ok THEN EstimatorError("General", "Failed to open DOCX as ZIP")
    ELSE IF archive.app_xml = <<>> THEN estimate_docx_from_content(archive, options)
    ELSE IF ~archive.app_xml[1].readable
         THEN EstimatorError("General", "Failed to read app.xml")
    ELSE LET parsed == parse_pages_from_app_xml(archive.app_xml[1].events)
         IN  IF parsed.status = "err" THEN parsed
             ELSE EstimateResult(parsed.page_count,
                      Repeat(PageSizeMm(PaperSize(options)), parsed.page_count),
                      <<<<"DOCX pages from metadata", parsed.page_count>>>>)

\* name.starts_with("ppt/slides/slide") && name.ends_with(".xml"), over the entries
\* archive.by_index can read
estimate_pptx_from_content(archive) ==
    LET slide_count ==
            Cardinality({i \in 1..Len(archive.names) :
                            /\ archive.names[i].readable
                            /\ archive.names[i].slide_prefix
                            /\ archive.names[i].xml_suffix})
    IN  IF slide_count = 0 THEN EstimatorError("General", "No slides found in PPTX")
        ELSE EstimateResult(slide_count, Repeat(PageSizeMm(slide_mm), slide_count),
                            <<<<"PPTX slides counted from files", slide_count>>>>)

estimate_pptx_pages(archive, options) ==
    IF ~archive.zip_ok THEN EstimatorError("General", "Failed to open PPTX as ZIP")
    ELSE IF archive.app_xml = <<>> THEN estimate_pptx_from_content(archive)
    ELSE IF ~archive.app_xml[1].readable
         THEN EstimatorError("General", "Failed to read app.xml")
    ELSE LET parsed == parse_slides_from_app_xml(archive.app_xml[1].events)
         IN  IF parsed.status = "err" THEN parsed
             ELSE EstimateResult(parsed.page_count,
                      Repeat(PageSizeMm(slide_mm), parsed.page_count),
                      <<<<"PPTX slides from metadata", parsed.page_count>>>>)

(***************************************************************************)
(* estimate_pdf_with_pdfjs (assembly.rs).  A JSON value is null, a number  *)
(* or a string; what count_pdf_pages_js settles with is an error, a value  *)
(* that is no string, a string that is no JSON, or a string of JSON.       *)
(***************************************************************************)
JsonNull == [t |-> "null", v |-> 0]
JsonNum(n) == [t |-> "num", v |-> n]
JsonStr == [t |-> "str", v |-> 0]

as_u64(value) == IF value.t = "num" /\ value.v >= 0 THEN <<value.v>> ELSE <<>>
as_f64(value) == IF value.t = "num" THEN <<value.v>> ELSE <<>>

JsReply(tag, page_count, width_pt, height_pt) ==
    [tag |-> tag, page_count |-> page_count, width_pt |-> width_pt, height_pt |-> height_pt]

DefaultWidthPt == 595
DefaultHeightPt == 842

\* format!("{:?}", err) and err.to_string() of an EstimatorError
DebugFormat(err) == <<"Debug", err[1], err[2]>>
DisplayFormat(err) ==
    <<"Display",
      CASE err[1] = "PdfError" -> "PDF parse error: "
        [] err[1] = "XlsxError" -> "XLSX parse error: "
        [] OTHER -> "General error: ",
      err[2]>>

\* json!({"error": msg, "detected": detected})
ErrorObject(msg, detected) ==
    [status |-> "err", page_count |-> 0, page_sizes |-> <<>>, notes |-> <<>>,
     error |-> msg, detected |-> <<detected>>]

\* the fallback to the Rust parser, with EstimateOptions::default()
RustParserFallback(text) ==
    LET res == estimate_pdf_pages(text, DefaultOptions)
    IN  IF res.status = "ok" THEN res ELSE ErrorObject(DebugFormat(res.error), "pdf")

\* the reply is a string that parses as JSON: the first return of the function
ReplyIsUsed(reply) == reply.tag = "json"

\* what estimate_pdf_with_pdfjs returns once count_pdf_pages_js has settled
estimate_pdf_with_pdfjs(text, reply) ==
    IF ReplyIsUsed(reply)
    THEN LET page_count == unwrap_or(as_u64(reply.page_count), 0)
             width_mm == mm_from_pt(unwrap_or(as_f64(reply.width_pt), DefaultWidthPt))
             height_mm == mm_from_pt(unwrap_or(as_f64(reply.height_pt), DefaultHeightPt))
         IN  EstimateResult(page_count,
                 Repeat(PageSizeMm(<<width_mm, height_mm>>), page_count),
                 <<<<"PDF has pages", page_count, width_mm, height_mm>>, <<"Using PDF.js">>>>)
    ELSE RustParserFallback(text)

(***************************************************************************)
(* estimate_pdf_pages of lib.rs, on the document lopdf loads.  A document  *)
(* is its pages in order; a page is the object its id resolves to and the  *)
(* MediaBox and CropBox entries of its dictionary, each absent (<<>>) or   *)
(* one object.                                                             *)
(***************************************************************************)
PdfObject(t, v, vals) == [t |-> t, v |-> v, vals |-> vals]
PdfInteger(n) == PdfObject("integer", n, <<>>)
PdfReal(n) == PdfObject("real", n, <<>>)
PdfName == PdfObject("name", 0, <<>>)
PdfReference(n) == PdfObject("reference", n, <<>>)
PdfArray(vals) == PdfObject("array", 0, vals)

obj_to_f64(obj) == IF obj.t \in {"integer", "real"} THEN obj.v ELSE 0

Abs(x) == IF x < 0 THEN -x ELSE x

\* if let Object::Array(vals) = box_obj { if vals.len() == 4 { ... } }
IsRectangle(box_obj) == box_obj.t = "array" /\ Len(box_obj.vals) = 4

RectanglePts(box_obj) ==
    <<Abs(obj_to_f64(box_obj.vals[3]) - obj_to_f64(box_obj.vals[1])),
      Abs(obj_to_f64(box_obj.vals[4]) - obj_to_f64(box_obj.vals[2]))>>

\* width_pts and height_pts of one page
PagePts(page) ==
    IF page.object # "dictionary" THEN <<DefaultWidthPt, DefaultHeightPt>>
    ELSE IF page.media_box # <<>>
         THEN (IF IsRectangle(page.media_box[1]) THEN RectanglePts(page.media_box[1])
               ELSE <<DefaultWidthPt, DefaultHeightPt>>)
    ELSE IF page.crop_box # <<>>
         THEN (IF IsRectangle(page.crop_box[1]) THEN RectanglePts(page.crop_box[1])
               ELSE <<DefaultWidthPt, DefaultHeightPt>>)
    ELSE <<DefaultWidthPt, DefaultHeightPt>>

PageMm(page) == PageSizeMm(<<mm_from_pt(PagePts(page)[1]), mm_from_pt(PagePts(page)[2])>>)

lib_estimate_pdf_pages(lopdf) ==
    IF ~lopdf.loads THEN EstimatorError("PdfError", "load_mem")
    ELSE EstimateResult(Len(lopdf.pages),
             [k \in 1..Len(lopdf.pages) |-> PageMm(lopdf.pages[k])],
             [k \in 1..Len(lopdf.pages) |->
                 <<"Page", k, PageMm(lopdf.pages[k]).width_mm,
                   PageMm(lopdf.pages[k]).height_mm>>])

(***************************************************************************)
(* Rust strings (str), as sequences of the bytes of valid UTF-8.  An index *)
(* is a byte offset; slicing panics unless it is on a char boundary.       *)
(***************************************************************************)
is_char_boundary(s, index) ==
    \/ index = 0
    \/ index = Len(s)
    \/ index < Len(s) /\ ~IsContinuation(s[index + 1])

\* the byte length of the char at offset p when it has the White_Space
\* property (char::is_whitespace), else 0
WhitespaceLen(s, p) ==
    LET b1 == s[p + 1]
        b2 == IF p + 1 < Len(s) THEN s[p + 2] ELSE 0
        b3 == IF p + 2 < Len(s) THEN s[p + 3] ELSE 0
    IN  IF b1 \in {9, 10, 11, 12, 13, 32} THEN 1
        ELSE IF b1 = 194 /\ b2 \in {133, 160} THEN 2
        ELSE IF b1 = 225 /\ b2 = 154 /\ b3 = 128 THEN 3
        ELSE IF b1 = 226 /\ b2 = 128 /\ (b3 \in 128..138 \/ b3 \in {168, 169, 175}) THEN 3
        ELSE IF b1 = 226 /\ b2 = 129 /\ b3 = 159 THEN 3
        ELSE IF b1 = 227 /\ b2 = 128 /\ b3 = 128 THEN 3
        ELSE 0

\* the offsets where a char starts and that char is no whitespace
InkOffsets(s) ==
    {p \in 0..(Len(s) - 1) : ~IsContinuation(s[p + 1]) /\ WhitespaceLen(s, p) = 0}

trim_start(s) == IF InkOffsets(s) = {} THEN <<>> ELSE SliceFrom(s, Min(InkOffsets(s)))

trim(s) ==
    IF InkOffsets(s) = {} THEN <<>>
    ELSE LET last == Max(InkOffsets(s))
         IN  Slice(s, Min(InkOffsets(s)), last + SeqLen(s[last + 1]))

\* s.chars().take_while(|c| c.is_ascii_digit()).collect()
LeadingDigits(s) ==
    LET stops == {q \in 0..Len(s) : q = Len(s) \/ ~is_ascii_digit(s[q + 1])}
    IN  SubSeq(s, 1, Min(stops))

\* s.lines().next(): nothing for the empty string, else the text before the
\* first "\n" without the "\r" that precedes it
first_line(s) ==
    LET breaks == {q \in 0..(Len(s) - 1) : s[q + 1] = 10}
        stop == IF breaks = {} THEN Len(s) ELSE Min(breaks)
        line == SubSeq(s, 1, stop)
    IN  IF s = <<>> THEN <<>>
        ELSE IF breaks # {} /\ line # <<>> /\ line[Len(line)] = 13
             THEN <<SubSeq(line, 1, Len(line) - 1)>>
        ELSE <<line>>

\* s.find(pattern) and s.rfind(pattern), None as <<>>
str_find(s, pattern) ==
    LET hits == MatchPositions(s, 0, Len(s), pattern)
    IN  IF hits = {} THEN <<>> ELSE <<Min(hits)>>

str_rfind(s, pattern) ==
    LET hits == MatchPositions(s, 0, Len(s), pattern)
    IN  IF hits = {} THEN <<>> ELSE <<Max(hits)>>

\* the bytes of U+FFFD
replacement_character == <<239, 191, 189>>

\* the continuation byte at j (from 1) belongs to the sequence of the nearest
\* byte before it that is no continuation byte
CoveredBy(text, i, j) ==
    /\ ~IsContinuation(text[i])
    /\ \A r \in (i + 1)..j : IsContinuation(text[r])
    /\ SeqLen(text[i]) > j - i
    /\ SecondOk(text[i], text[i + 1])

Covered(text, j) ==
    IsContinuation(text[j]) /\ \E i \in Max({1, j - 3})..(j - 1) : CoveredBy(text, i, j)

\* the length of the chunk that starts at i: a whole sequence, or the longest
\* prefix of one
ChunkLen(text, i) ==
    1 + Cardinality({j \in (i + 1)..MinOf(i + 3, Len(text)) : CoveredBy(text, i, j)})

InvalidChunks(text) ==
    {i \in 1..Len(text) : ~Covered(text, i) /\ SeqLen(text[i]) # ChunkLen(text, i)}

\* String::from_utf8_lossy: every invalid chunk becomes one U+FFFD
RECURSIVE from_utf8_lossy(_)
from_utf8_lossy(text) ==
    IF InvalidChunks(text) = {} THEN text
    ELSE LET i == Min(InvalidChunks(text))
         IN  SubSeq(text, 1, i - 1) \o replacement_character
                 \o from_utf8_lossy(SubSeq(text, i + ChunkLen(text, i), Len(text)))

(***************************************************************************)
(* count_pdf_pages_simple (simple_pdf.rs).                                 *)
(***************************************************************************)
SimpleWindow == 50
SimpleLimit == 1000000

\* Option<usize> as a sequence of at most one number
extract_number(s) ==
    LET num_str == LeadingDigits(trim_start(s))
    IN  IF num_str = <<>> THEN <<>> ELSE DigitsValue(num_str, 0)

\* the end of the window after the "/Count" at i
SimpleWindowEnd(content, i) == MinOf(i + Len(kw_Count) + SimpleWindow, Len(content))

count_pdf_pages_simple(text) ==
    IF ~Utf8Valid(text) THEN None
    ELSE LET content == text
             starts == {i \in MatchPositions(content, 0, Len(content), kw_Count) :
                          i + Len(kw_Count) < Len(content)}
             after_count(i) == Slice(content, i + Len(kw_Count), SimpleWindowEnd(content, i))
             nums == {extract_number(after_count(i))[1] :
                        i \in {h \in starts : extract_number(after_count(h)) # <<>>}}
             counted == {n \in nums : n > 0 /\ n < SimpleLimit}
         IN  IF \E i \in starts : ~is_char_boundary(content, SimpleWindowEnd(content, i))
             THEN Panic
             ELSE IF counted = {} THEN None ELSE Max(counted)

(***************************************************************************)
(* extract_page_count_fast (fast_pdf.rs).  A count is a number, None or    *)
(* Panic; an Option inside the function is a sequence of at most one value. *)
(***************************************************************************)
TypeWindow == 50
PagesWindow == 1000
kw_endobj == <<101, 110, 100, 111, 98, 106>>          \* "endobj"

\* a variant that reads the number after the last "/Count" of the snippet
extract_count_from_snippet_Last(snippet) ==
    LET count_pos == str_rfind(snippet, kw_Count)
    IN  IF count_pos = <<>> THEN <<>>
        ELSE LET after_count == SliceFrom(snippet, count_pos[1] + Len(kw_Count))
                 num_str == LeadingDigits(trim_start(trim_start(after_count)))
             IN  IF num_str = <<>> THEN <<>> ELSE DigitsValue(num_str, 0)

extract_count_from_snippet(snippet) ==
    LET count_pos == str_find(snippet, kw_Count)
    IN  IF count_pos = <<>> THEN <<>>
        ELSE LET after_count == SliceFrom(snippet, count_pos[1] + Len(kw_Count))
                 num_str == LeadingDigits(trim_start(trim_start(after_count)))
             IN  IF num_str = <<>> THEN <<>> ELSE DigitsValue(num_str, 0)

\* the second loop of find_pages_count_pattern at one Pages position: "panic",
\* "return" with the count, or "next"
PagesPositionStep(content, pos) ==
    LET end == MinOf(pos + PagesWindow, Len(content))
        count == extract_count_from_snippet(Slice(content, pos, end))
    IN  IF ~(end > pos /\ end <= Len(content)) THEN [step |-> "next", count |-> 0]
        ELSE IF ~is_char_boundary(content, end) THEN [step |-> "panic", count |-> 0]
        ELSE IF count # <<>> /\ count[1] > 0 THEN [step |-> "return", count |-> count[1]]
        ELSE [step |-> "next", count |-> 0]

find_pages_count_pattern(text) ==
    IF text = <<>> THEN None
    ELSE LET content == from_utf8_lossy(text)
             types == MatchPositions(content, 0, Len(content), kw_Type)
             end_idx(idx) == MinOf(idx + TypeWindow, Len(content))
             pages_positions ==
                 {idx \in types : end_idx(idx) > idx
                                    /\ str_find(Slice(content, idx, end_idx(idx)), kw_Pages) # <<>>}
             decided == {pos \in pages_positions : PagesPositionStep(content, pos).step # "next"}
         IN  IF \E idx \in types : end_idx(idx) > idx /\ ~is_char_boundary(content, end_idx(idx))
             THEN Panic
             ELSE IF decided = {} THEN None
             ELSE LET first == PagesPositionStep(content, Min(decided))
                  IN  IF first.step = "panic" THEN Panic ELSE first.count

\* the number after a key of a dictionary: trim_start, the leading digits, parse
ObjIdAfter(s, key) ==
    LET key_pos == str_find(s, key)
    IN  IF s = <<>> \/ key_pos = <<>> THEN <<>>
        ELSE IF key_pos[1] + Len(key) >= Len(s) THEN <<>>
        ELSE LET num_str == LeadingDigits(trim_start(SliceFrom(s, key_pos[1] + Len(key))))
             IN  IF num_str = <<>> THEN <<>> ELSE DigitsValue(num_str, 0)

extract_root_obj_id(trailer) == ObjIdAfter(trailer, kw_Root)

extract_pages_obj_id(catalog) == ObjIdAfter(catalog, kw_Pages)

\* Some(&bytes[start_byte..end_byte]): the offsets are those of the lossily
\* decoded text
find_object_content(text, obj_id) ==
    IF text = <<>> THEN <<>>
    ELSE LET content == from_utf8_lossy(text)
             obj_start == str_find(content, ToDecimal(obj_id) \o kw_0_obj)
         IN  IF obj_start = <<>> THEN <<>>
             ELSE LET obj_end == str_find(SliceFrom(content, obj_start[1]), kw_endobj)
                  IN  IF obj_end = <<>> THEN <<>>
                      ELSE IF obj_start[1] + obj_end[1] > Len(text) \/ obj_end[1] = 0 THEN <<>>
                      ELSE <<Slice(text, obj_start[1], obj_start[1] + obj_end[1])>>

\* after_startxref.trim().lines().next()?.trim().parse().ok()?
XrefOffsetOf(after_startxref) ==
    LET line == first_line(trim(after_startxref))
    IN  IF line = <<>> THEN <<>> ELSE parse_usize(trim(line[1]))

\* parse_pdf_structure from the xref section on
StructureFrom(text, content, xref_offset) ==
    LET xref_section == SliceFrom(content, xref_offset)
        trailer_pos == str_find(xref_section, trailer_pattern)
        root_obj_id == extract_root_obj_id(SliceFrom(xref_section, trailer_pos[1]))
        catalog_content == find_object_content(text, root_obj_id[1])
        pages_obj_id == extract_pages_obj_id(from_utf8_lossy(catalog_content[1]))
        pages_content == find_object_content(text, pages_obj_id[1])
        count == extract_count_from_snippet(from_utf8_lossy(pages_content[1]))
    IN  IF trailer_pos = <<>> THEN None
        ELSE IF root_obj_id = <<>> THEN None
        ELSE IF catalog_content = <<>> THEN None
        ELSE IF pages_obj_id = <<>> THEN None
        ELSE IF pages_content = <<>> THEN None
        ELSE IF count = <<>> THEN None
        ELSE count[1]

parse_pdf_structure(text) ==
    IF text = <<>> THEN None
    ELSE LET content == from_utf8_lossy(text)
             startxref_pos == str_rfind(content, startxref_pattern)
         IN  IF startxref_pos = <<>> THEN None
             ELSE IF startxref_pos[1] + Len(startxref_pattern) >= Len(content) THEN None
             ELSE LET xref_offset ==
                          XrefOffsetOf(SliceFrom(content,
                                                 startxref_pos[1] + Len(startxref_pattern)))
                  IN  IF xref_offset = <<>> THEN None
                      ELSE IF xref_offset[1] >= Len(text) THEN None
                      ELSE IF ~is_char_boundary(content, xref_offset[1]) THEN Panic
                      ELSE StructureFrom(text, content, xref_offset[1])

extract_page_count_fast(text) ==
    LET first == find_pages_count_pattern(text)
    IN  IF first = Panic THEN Panic
        ELSE IF first # None THEN first
        ELSE parse_pdf_structure(text)

(***************************************************************************)
(* detect_type (file_utils.rs) and estimate_document (assembly.rs).  A     *)
(* file name is a sequence of ASCII bytes; what the buffer holds as a ZIP  *)
(* container is given beside its bytes: the archive ZipArchive::new opens, *)
(* the workbook Xlsx::new opens, and the marker entries it has.            *)
(***************************************************************************)
to_lowercase(name) ==
    [i \in 1..Len(name) |-> IF name[i] >= 65 /\ name[i] <= 90 THEN name[i] + 32 ELSE name[i]]

ends_with(s, suffix) ==
    Len(s) >= Len(suffix) /\ SubSeq(s, Len(s) - Len(suffix) + 1, Len(s)) = suffix

ext_pdf == <<46, 112, 100, 102>>
ext_xlsx == <<46, 120, 108, 115, 120>>
ext_xlsm == <<46, 120, 108, 115, 109>>
ext_docx == <<46, 100, 111, 99, 120>>
ext_pptx == <<46, 112, 112, 116, 120>>
ext_md == <<46, 109, 100>>
ext_markdown == <<46, 109, 97, 114, 107, 100, 111, 119, 110>>
ext_txt == <<46, 116, 120, 116>>
magic_pdf == <<37, 80, 68, 70>>
magic_zip == <<80, 75>>

Container(archive, workbook, entries) ==
    [archive |-> archive, workbook |-> workbook, entries |-> entries]

detect_office_type(container) ==
    IF ~container.archive.zip_ok THEN "xlsx"
    ELSE IF container.archive.document_xml # <<>> THEN "docx"
    ELSE IF "ppt/presentation.xml" \in container.entries THEN "pptx"
    ELSE IF "xl/workbook.xml" \in container.entries THEN "xlsx"
    ELSE "xlsx"

\* the type the magic bytes give, when the file name gave none
detect_by_magic(text, container) ==
    IF Len(text) >= 4 /\ SubSeq(text, 1, 4) = magic_pdf THEN "pdf"
    ELSE IF Len(text) >= 4 /\ SubSeq(text, 1, 2) = magic_zip THEN detect_office_type(container)
    ELSE IF \A i \in 1..Len(text) : text[i] \in {9, 10, 13} \/ (text[i] >= 32 /\ text[i] <= 127)
         THEN "txt"
    ELSE "unknown"

\* a variant that consults the magic bytes before the file name
detect_type_MagicFirst(filename, text, container) ==
    IF detect_by_magic(text, container) # "unknown" \/ filename = <<>>
    THEN detect_by_magic(text, container)
    ELSE LET lower == to_lowercase(filename[1])
         IN  IF ends_with(lower, ext_pdf) THEN "pdf"
             ELSE IF ends_with(lower, ext_xlsx) \/ ends_with(lower, ext_xlsm) THEN "xlsx"
             ELSE IF ends_with(lower, ext_docx) THEN "docx"
             ELSE IF ends_with(lower, ext_pptx) THEN "pptx"
             ELSE IF ends_with(lower, ext_md) \/ ends_with(lower, ext_markdown) THEN "markdown"
             ELSE IF ends_with(lower, ext_txt) THEN "txt"
             ELSE "unknown"

detect_type(filename, text, container) ==
    IF filename = <<>> THEN detect_by_magic(text, container)
    ELSE LET lower == to_lowercase(filename[1])
         IN  IF ends_with(lower, ext_pdf) THEN "pdf"
             ELSE IF ends_with(lower, ext_xlsx) \/ ends_with(lower, ext_xlsm) THEN "xlsx"
             ELSE IF ends_with(lower, ext_docx) THEN "docx"
             ELSE IF ends_with(lower, ext_pptx) THEN "pptx"
             ELSE IF ends_with(lower, ext_md) \/ ends_with(lower, ext_markdown) THEN "markdown"
             ELSE IF ends_with(lower, ext_txt) THEN "txt"
             ELSE detect_by_magic(text, container)

\* Err(err) => Err(err.to_string()), then json!({"error": err_msg, "detected": detected})
DocumentOutput(res, detected) ==
    IF res.status = "err" THEN ErrorObject(DisplayFormat(res.error), detected) ELSE res

\* the options are the parsed options_json, or EstimateOptions::default()
estimate_document(text, container, filename, options, overflow_checks) ==
    LET detected == detect_type(filename, text, container)
    IN  CASE detected = "pdf" -> DocumentOutput(estimate_pdf_pages(text, options), detected)
          [] detected = "xlsx" ->
                DocumentOutput(estimate_xlsx_pages(container.workbook, options), detected)
          [] detected = "docx" ->
                DocumentOutput(estimate_docx_pages(container.archive, options), detected)
          [] detected = "pptx" ->
                DocumentOutput(estimate_pptx_pages(container.archive, options), detected)
          [] detected = "txt" -> estimate_text_pages(text, options, overflow_checks)
          [] detected = "markdown" -> estimate_markdown_pages(text, options, overflow_checks)
          [] OTHER -> ErrorObject(<<"Unsupported or unrecognized format: ", detected>>, detected)

(***************************************************************************)
(* The calls of the estimators that are tried.                             *)
(***************************************************************************)
MaxChars == 3        \* characters of a short text
MaxRows == 2         \* rows of a small sheet
MaxMetaPages == 3    \* the count a docProps/app.xml carries
MaxJsPages == 2      \* the page_count PDF.js reports

Call(format, input, options, text) ==
    [kind |-> format, doc |-> [input |-> input, options |-> options], bytes |-> text]

Papers == {<<<<"A4">>, <<>>>>, <<<<"Letter">>, <<>>>>, <<<<>>, <<<<Mm(100, 1), Mm(150, 1)>>>>>>}

\* short texts, texts around one default page, a two-byte character, bytes that
\* are not UTF-8
Texts ==
    {Fill(n) : n \in 0..MaxChars}
    \cup {Fill(DefaultCharsPerPage + d) : d \in {-1, 0, 1}}
    \cup {Fill(n) \o <<195, 169>> : n \in 0..1}
    \cup {<<255>>, <<195>>, Fill(2) \o <<169>>, <<192, 128>>, <<237, 160, 128>>}

TextOptions ==
    {EstimateOptions(p[1], p[2], cpp, <<>>) :
        p \in Papers, cpp \in {<<>>, <<0>>, <<1>>, <<2>>, <<UsizeMax>>, <<UsizeMax - 1>>}}

TextCalls ==
    {Call(k, "text", o, t) : k \in {"txt", "markdown"}, t \in Texts, o \in TextOptions}

Sheet(name, readable, rows) == [name |-> name, readable |-> readable, rows |-> rows]

RowSeqs ==
    UNION {[1..n -> BOOLEAN] : n \in 0..MaxRows}
    \cup {Repeat(TRUE, DefaultRowsPerPage + d) : d \in {0, 1}}

Workbooks ==
    {[opens |-> FALSE, sheets |-> <<>>], [opens |-> TRUE, sheets |-> <<>>]}
    \cup {[opens |-> TRUE, sheets |-> <<Sheet("a", TRUE, r)>>] : r \in RowSeqs}
    \cup {[opens |-> TRUE, sheets |-> <<Sheet("a", ra, r), Sheet("b", rb, Repeat(TRUE, n))>>] :
            r \in [1..MaxRows -> BOOLEAN], n \in 0..MaxRows, ra \in BOOLEAN, rb \in BOOLEAN}

XlsxCalls ==
    {Call("xlsx", w, EstimateOptions(<<"A4">>, <<>>, <<>>, rpp), <<>>) :
        w \in Workbooks, rpp \in {<<>>, <<0>>, <<1>>, <<2>>}}

\* docProps/app.xml: the count inside its tag, after an empty tag, not a number,
\* missing, or XML the reader rejects
AppXmls(tag) ==
    {[readable |-> FALSE, events |-> <<>>],
     [readable |-> TRUE, events |-> <<XmlEvent("Err", "", <<>>)>>],
     [readable |-> TRUE, events |-> <<XmlEvent("Start", "Properties", <<>>),
                                      XmlEvent("End", "Properties", <<>>)>>],
     [readable |-> TRUE, events |-> <<XmlEvent("Start", tag, <<>>),
                                      XmlEvent("Text", "", <<97, 98>>),
                                      XmlEvent("End", tag, <<>>)>>],
     [readable |-> TRUE, events |-> <<XmlEvent("Empty", tag, <<>>),
                                      XmlEvent("Start", "Words", <<>>),
                                      XmlEvent("Text", "", ToDecimal(12)),
                                      XmlEvent("End", "Words", <<>>)>>]}
    \cup {[readable |-> TRUE, events |-> <<XmlEvent("Start", "Properties", <<>>),
                                           XmlEvent("Start", "Words", <<>>),
                                           XmlEvent("Text", "", ToDecimal(12)),
                                           XmlEvent("End", "Words", <<>>),
                                           XmlEvent("Start", tag, <<>>),
                                           XmlEvent("Text", "", ToDecimal(n)),
                                           XmlEvent("End", tag, <<>>),
                                           XmlEvent("End", "Properties", <<>>)>>]
            : n \in 0..MaxMetaPages}

DocumentXmls ==
    {[readable |-> FALSE, page_breaks |-> 0, p_open |-> 0, p_plain |-> 0]}
    \cup {[readable |-> TRUE, page_breaks |-> b, p_open |-> p, p_plain |-> q] :
            b \in 0..2, p \in {0, ParagraphsPerPage, ParagraphsPerPage + 1}, q \in 0..1}

EntryName(readable, slide_prefix, xml_suffix) ==
    [readable |-> readable, slide_prefix |-> slide_prefix, xml_suffix |-> xml_suffix]

NameLists ==
    {<<>>,
     <<EntryName(TRUE, FALSE, TRUE)>>,
     <<EntryName(TRUE, TRUE, TRUE), EntryName(TRUE, TRUE, FALSE)>>,
     <<EntryName(TRUE, TRUE, TRUE), EntryName(FALSE, TRUE, TRUE), EntryName(TRUE, TRUE, TRUE)>>}

Archive(zip_ok, app_xml, document_xml, names) ==
    [zip_ok |-> zip_ok, app_xml |-> app_xml, document_xml |-> document_xml, names |-> names]

DocxArchives ==
    {Archive(FALSE, <<>>, <<>>, <<>>), Archive(TRUE, <<>>, <<>>, <<>>)}
    \cup {Archive(TRUE, <<a>>, <<>>, <<>>) : a \in AppXmls("Pages")}
    \cup {Archive(TRUE, <<>>, <<d>>, <<>>) : d \in DocumentXmls}

PptxArchives ==
    {Archive(FALSE, <<>>, <<>>, <<>>)}
    \cup {Archive(TRUE, <<a>>, <<>>, <<>>) : a \in AppXmls("Slides")}
    \cup {Archive(TRUE, <<>>, <<>>, names) : names \in NameLists}

OfficeCalls ==
    {Call("docx", a, EstimateOptions(p[1], p[2], <<>>, <<>>), <<>>) :
        a \in DocxArchives, p \in Papers}
    \cup {Call("pptx", a, DefaultOptions, <<>>) : a \in PptxArchives}

\* PDF buffers: complete documents, and buffers with /Type/Page, /Type /Pages only,
\* /Type /PageLabels, a /Type /Page at the very end, no /Type at all
PdfTexts ==
    {Render(Doc(FlatObjs(k, ToDecimal(k), out, "plain"), "plain", [kind |-> "asc", j |-> 0],
                "flat")) : k \in 1..MaxPages, out \in {<<>>, ToDecimal(MaxOutlineCount)}}
    \cup {Render(Doc(NestedObjs("plain"), "plain", [kind |-> "asc", j |-> 0], "nested"))}
    \cup {<<>>,
          Fill(10),
          kw_TypePage \o <<32>> \o kw_Type_Page,
          kw_Type_Page \o <<115>> \o kw_TypePage \o <<115>>,
          kw_Type_Page \o <<76, 97, 98, 101, 108, 115>>,
          kw_Type \o <<32>> \o kw_Type_Page}

LetterPt == <<612, 792>>    \* the page size of the large document, in points

MaxPageObjects == 3    \* page objects of a described PDF
MaxPagesNodes == 2     \* its /Type /Pages nodes

s_TypePages == <<47, 84, 121, 112, 101, 47, 80, 97, 103, 101, 115>>    \* "/Type/Pages"
s_PageLabel == <<47, 84, 121, 112, 101, 32, 47, 80, 97, 103, 101, 76, 97, 98, 101, 108, 32, 47, 83, 32, 47, 68>>
    \* "/Type /PageLabel /S /D"

\* what a PDF buffer is made of: its page objects and its Pages nodes, each
\* written "/Type /Page" ("spaced") or "/Type/Page" ("tight"), and its page
\* label dictionaries; page_objects is -1 when the buffer is not described
PdfShape(marks, nodes, labels) ==
    [page_objects |-> Len(marks), marks |-> marks, nodes |-> nodes, labels |-> labels,
     size_pt |-> <<>>]

UnknownShape ==
    [page_objects |-> -1, marks |-> <<>>, nodes |-> <<>>, labels |-> 0, size_pt |-> <<>>]

Styles(n) == UNION {[1..m -> {"spaced", "tight"}] : m \in 0..n}

PdfShapes ==
    {PdfShape(marks, nodes, labels) :
        marks \in Styles(MaxPageObjects) \ {<<>>}, nodes \in Styles(MaxPagesNodes),
        labels \in 0..1}

ShapeObj(id, body) == ToDecimal(id) \o t_obj_open \o body \o t_obj_close

RECURSIVE ShapeObjs(_, _)
ShapeObjs(bodies, id) ==
    IF bodies = <<>> THEN <<>>
    ELSE ShapeObj(id, Head(bodies)) \o ShapeObjs(Tail(bodies), id + 1)

\* the catalog, the Pages nodes, the page objects, the page label dictionaries
ShapeText(shape) ==
    t_header
    \o ShapeObjs(<<t_catalog \o ToDecimal(2) \o t_ref>>
                 \o [j \in 1..Len(shape.nodes) |->
                        (IF shape.nodes[j] = "spaced" THEN t_pages ELSE s_TypePages)
                        \o <<32>> \o kw_Count \o <<32>> \o ToDecimal(shape.page_objects)]
                 \o [j \in 1..Len(shape.marks) |->
                        (IF shape.marks[j] = "spaced" THEN kw_Type_Page ELSE kw_TypePage)
                        \o t_parent \o ToDecimal(2) \o t_ref]
                 \o [j \in 1..shape.labels |-> s_PageLabel],
                 1)
    \o t_eof

ManyPages == 150    \* pages of a large document


Rectangle(x0, y0, x1, y1) == PdfArray(<<PdfInteger(x0), PdfInteger(y0), PdfInteger(x1), PdfReal(y1)>>)

LetterBox == Rectangle(0, 0, LetterPt[1], LetterPt[2])

\* the MediaBox entries tried: none, rectangles (also with the corners
\* swapped or off the origin), an array of three numbers, an array with a name
\* in it, a reference to an array, a name
MediaBoxes ==
    {<<>>, <<LetterBox>>, <<Rectangle(LetterPt[1], LetterPt[2], 0, 0)>>,
     <<Rectangle(10, 20, 310, 520)>>,
     <<PdfArray(<<PdfInteger(0), PdfInteger(0), PdfInteger(612)>>)>>,
     <<PdfArray(<<PdfName, PdfInteger(0), PdfInteger(612), PdfInteger(792)>>)>>,
     <<PdfReference(7)>>, <<PdfName>>}

CropBoxes ==
    {<<>>, <<Rectangle(0, 0, 300, 500)>>, <<PdfArray(<<PdfInteger(0)>>)>>, <<PdfReference(8)>>}

LopdfPage(object, media_box, crop_box) ==
    [object |-> object, media_box |-> media_box, crop_box |-> crop_box]

LopdfPages ==
    {LopdfPage("dictionary", m, c) : m \in MediaBoxes, c \in CropBoxes}
    \cup {LopdfPage(o, <<>>, <<>>) : o \in {"missing", "stream"}}

LopdfDocument(loads, pages) == [loads |-> loads, pages |-> pages]

LopdfDocuments ==
    {LopdfDocument(FALSE, <<>>), LopdfDocument(TRUE, <<>>),
     LopdfDocument(TRUE, Repeat(LopdfPage("dictionary", <<LetterBox>>, <<>>), ManyPages))}
    \cup {LopdfDocument(TRUE, <<p>>) : p \in LopdfPages}
    \cup {LopdfDocument(TRUE, <<LopdfPage("dictionary", <<LetterBox>>, <<>>), p>>) :
            p \in LopdfPages}

LopdfCalls == {Call("lopdf", d, DefaultOptions, <<>>) : d \in LopdfDocuments}

\* a PDF buffer of one Pages node and ManyPages page objects, each
\* "/Type /Page /MediaBox [0 0 612 792]"
LetterShape == [PdfShape(Repeat("spaced", ManyPages), <<"spaced">>, 0) EXCEPT !.size_pt = LetterPt]

RepeatText(line, n) == [i \in 1..(n * Len(line)) |-> line[((i - 1) % Len(line)) + 1]]

LetterText ==
    t_header \o t_pages \o <<32>> \o kw_Count \o <<32>> \o ToDecimal(ManyPages) \o <<10>>
    \o RepeatText(kw_Type_Page \o t_mediabox \o <<10>>, ManyPages)

PdfCalls ==
    {Call("pdf", UnknownShape, DefaultOptions, t) : t \in PdfTexts}
    \cup {Call("pdf", shape, DefaultOptions, ShapeText(shape)) : shape \in PdfShapes}
    \cup {Call("pdf", LetterShape, DefaultOptions, LetterText)}

\* what the awaited count_pdf_pages_js can settle with
JsReplies ==
    {JsReply("err", JsonNull, JsonNull, JsonNull),
     JsReply("nonstring", JsonNull, JsonNull, JsonNull),
     JsReply("badjson", JsonNull, JsonNull, JsonNull)}
    \cup {JsReply("json", c, d[1], d[2]) :
            c \in {JsonNull, JsonStr, JsonNum(-1)} \cup {JsonNum(n) : n \in 0..MaxJsPages},
            d \in {<<JsonNull, JsonNull>>, <<JsonNum(612), JsonNum(792)>>}}

PdfJsCalls == {Call("pdfjs", UnknownShape, DefaultOptions, t) : t \in PdfTexts}

\* file names: none, extensions in either case, an extension that is not the
\* last one, a name without extension
FileNames ==
    {<<>>, <<<<97>> \o ext_pdf>>, <<<<65, 46, 80, 68, 70>>>>, <<ext_pdf \o ext_txt>>,
     <<<<97>> \o ext_md>>, <<<<97>> \o ext_markdown>>, <<<<97>>>>}

NoContainer == Container(Archive(FALSE, <<>>, <<>>, <<>>), [opens |-> FALSE, sheets |-> <<>>], {})

\* buffers that are no ZIP container: PDF buffers, %PDF without any page, text,
\* bytes that are neither
PlainBuffers ==
    PdfTexts \cup {magic_pdf \o Fill(3), magic_pdf, Fill(MaxChars), <<0, 255>>}

\* buffers that start with PK, and what they hold
Containers ==
    {NoContainer,
     Container(Archive(TRUE, <<>>, <<>>, <<>>), [opens |-> FALSE, sheets |-> <<>>], {}),
     Container(Archive(TRUE, <<>>, <<>>, <<>>),
               [opens |-> TRUE, sheets |-> <<Sheet("a", TRUE, Repeat(TRUE, MaxRows))>>],
               {"xl/workbook.xml"}),
     Container(Archive(TRUE, <<>>, <<>>, <<EntryName(TRUE, TRUE, TRUE)>>),
               [opens |-> FALSE, sheets |-> <<>>], {"ppt/presentation.xml"})}
    \cup {Container(Archive(TRUE, <<>>, <<d>>, <<>>), [opens |-> FALSE, sheets |-> <<>>], {}) :
            d \in {[readable |-> TRUE, page_breaks |-> b, p_open |-> 0, p_plain |-> 0] :
                     b \in 0..1}}

DocumentCall(text, container, filename, options) ==
    [kind |-> "document",
     doc |-> [input |-> container, options |-> options, filename |-> filename],
     bytes |-> text]

\* file names for an empty buffer: those above and one of each other type
EmptyFileNames ==
    FileNames \cup {<<<<97>> \o ext_xlsx>>, <<<<97>> \o ext_docx>>, <<<<97>> \o ext_pptx>>,
                    <<<<97>> \o ext_txt>>}

DocumentCalls ==
    {DocumentCall(t, NoContainer, f, DefaultOptions) : t \in PlainBuffers, f \in FileNames}
    \cup {DocumentCall(<<>>, NoContainer, f, o) : f \in EmptyFileNames, o \in TextOptions}
    \cup {DocumentCall(magic_zip \o Fill(2), c, f, DefaultOptions) :
            c \in Containers, f \in {<<>>, <<<<97>> \o ext_pdf>>, <<<<97>> \o ext_xlsx>>,
                                     <<<<97>> \o ext_xlsm>>, <<<<97>> \o ext_docx>>,
                                     <<<<97>> \o ext_pptx>>, <<<<97>> \o ext_txt>>}}

EstimatorCalls ==
    TextCalls \cup XlsxCalls \cup OfficeCalls \cup PdfCalls \cup PdfJsCalls \cup DocumentCalls
    \cup LopdfCalls

(***************************************************************************)
(* One call of an estimator; estimate_pdf_with_pdfjs is suspended at its   *)
(* await until count_pdf_pages_js settles.                                 *)
(***************************************************************************)
InitEstimators ==
    /\ \E c \in EstimatorCalls : kind = c.kind /\ doc = c.doc /\ bytes = c.bytes
    /\ pc = "call"
    /\ result = None
    /\ invoked = <<>>
    /\ outcomes = <<>>
    /\ js = NoReply
    /\ estimate = NoEstimate

Estimate(format, name, value) ==
    /\ pc = "call"
    /\ kind = format
    /\ invoked' = Append(invoked, name)
    /\ estimate' = value
    /\ pc' = IF value.status = "panic" THEN "panicked" ELSE "returned"
    /\ UNCHANGED <<kind, doc, bytes, result, outcomes, js>>

EstimateText ==
    \E overflow_checks \in BOOLEAN :
        Estimate("txt", "estimate_text_pages",
                 estimate_text_pages(bytes, doc.options, overflow_checks))

EstimateMarkdown ==
    \E overflow_checks \in BOOLEAN :
        Estimate("markdown", "estimate_markdown_pages",
                 estimate_markdown_pages(bytes, doc.options, overflow_checks))

EstimateXlsx ==
    Estimate("xlsx", "estimate_xlsx_pages", estimate_xlsx_pages(doc.input, doc.options))

EstimateDocx ==
    Estimate("docx", "estimate_docx_pages", estimate_docx_pages(doc.input, doc.options))

EstimatePptx ==
    Estimate("pptx", "estimate_pptx_pages", estimate_pptx_pages(doc.input, doc.options))

EstimatePdf == Estimate("pdf", "estimate_pdf_pages", estimate_pdf_pages(bytes, doc.options))

EstimatePdfLopdf ==
    Estimate("lopdf", "lib::estimate_pdf_pages", lib_estimate_pdf_pages(doc.input))

EstimateDocument ==
    \E overflow_checks \in BOOLEAN :
        Estimate("document", "estimate_document",
                 estimate_document(bytes, doc.input, doc.filename, doc.options, overflow_checks))

\* estimate_pdf_with_pdfjs up to count_pdf_pages_js(&bytes).await
CallPdfJs ==
    /\ pc = "call"
    /\ kind = "pdfjs"
    /\ invoked' = Append(invoked, "count_pdf_pages_js")
    /\ pc' = "awaiting"
    /\ UNCHANGED <<kind, doc, bytes, result, outcomes, js, estimate>>

\* the promise of count_pdf_pages_js settles
PdfJsSettles ==
    /\ pc = "awaiting"
    /\ \E reply \in JsReplies : js' = reply
    /\ pc' = "settled"
    /\ UNCHANGED <<kind, doc, bytes, result, invoked, outcomes, estimate>>

\* estimate_pdf_with_pdfjs from the await to its return
ResumePdfJs ==
    /\ pc = "settled"
    /\ invoked' = IF ReplyIsUsed(js) THEN invoked ELSE Append(invoked, "estimate_pdf_pages")
    /\ estimate' = estimate_pdf_with_pdfjs(bytes, js)
    /\ pc' = "returned"
    /\ UNCHANGED <<kind, doc, bytes, result, outcomes, js>>

NextEstimators ==
    \/ EstimateText
    \/ EstimateMarkdown
    \/ EstimateXlsx
    \/ EstimateDocx
    \/ EstimatePptx
    \/ EstimatePdf
    \/ EstimatePdfLopdf
    \/ EstimateDocument
    \/ CallPdfJs
    \/ PdfJsSettles
    \/ ResumePdfJs

SpecEstimators == InitEstimators /\ [][NextEstimators]_vars

(***************************************************************************)
(* The byte-level helpers outside count_pages_ultra_fast, each applied to  *)
(* one buffer.                                                             *)
(***************************************************************************)
Spaces(n) == [i \in 1..n |-> 32]

\* the tokens of a box, separated by one space
RECURSIVE Join(_)
Join(tokens) ==
    IF tokens = <<>> THEN <<>>
    ELSE IF Len(tokens) = 1 THEN tokens[1]
    ELSE tokens[1] \o <<32>> \o Join(Tail(tokens))

MaxLead == 1     \* filler bytes before /MediaBox

\* what follows "/MediaBox [": whole boxes, boxes that lack numbers or the
\* closing bracket, negative and fractional numbers, tokens that are no number
BoxBodies ==
    {Join(<<ToDecimal(0), ToDecimal(0), ToDecimal(612), ToDecimal(792)>>) \o <<93>>,
     Join(<<ToDecimal(0), ToDecimal(0), ToDecimal(612), ToDecimal(792)>>),
     Join(<<ToDecimal(612), ToDecimal(792), ToDecimal(0), ToDecimal(0)>>) \o <<93>>,
     Join(<<ToDecimal(0), ToDecimal(0)>>),
     Join(<<<<45, 53>>, <<45, 53, 46, 53>>, <<46, 53>>, <<53, 46>>>>) \o <<93>>,
     Join(<<ToDecimal(0), ToDecimal(0), ToDecimal(0), ToDecimal(0)>>) \o <<93>>,
     Join(<<<<49, 46, 50, 46, 51>>, ToDecimal(0), ToDecimal(5), ToDecimal(5)>>) \o <<93>>,
     Join(<<ToDecimal(0), ToDecimal(0), ToDecimal(20000), ToDecimal(5)>>) \o <<93>>,
     <<>>, <<93>>, <<97>>, <<45>>, <<46>>}

BoxTails ==
    {Spaces(n) : n \in {0, 1, MediaBoxMargin - 10, MediaBoxMargin, MediaBoxWindow}}
    \cup {Fill(n) : n \in {MediaBoxMargin - 10, MediaBoxMargin, MediaBoxWindow}}
    \cup {Spaces(MediaBoxMargin) \o Fill(MediaBoxWindow)}

MediaBoxInputs ==
    {Fill(lead) \o kw_MediaBox \o sep \o <<91>> \o body \o tail :
        lead \in 0..MaxLead, sep \in {<<>>, <<32>>}, body \in BoxBodies, tail \in BoxTails}
    \cup {Fill(n) \o kw_MediaBox \o <<32, 91>> : n \in {0, MediaBoxMargin, MediaBoxWindow}}
    \cup {kw_MediaBox \o Fill(MediaBoxMargin - 1) \o <<91>>,
          kw_MediaBox \o Fill(MediaBoxWindow) \o <<91>> \o Spaces(MediaBoxWindow),
          kw_MediaBox \o <<91, 97, 93>> \o kw_MediaBox \o <<91>>
              \o Join(<<ToDecimal(0), ToDecimal(0), ToDecimal(3), ToDecimal(4)>>) \o <<93>>
              \o Fill(MediaBoxMargin),
          <<>>, Fill(MediaBoxMargin), kw_MediaBox}

MaxStraddle == 3    \* how far before the end of a window a character starts

\* characters of two, three and four bytes, and a byte that is no UTF-8
WideChars == {<<195, 169>>, <<226, 130, 172>>, <<240, 159, 152, 128>>}

\* text, then filler up to a character near offset `at`, then a tail
Straddle(head, at, shift, char, tail) ==
    head \o Fill(at - shift - Len(head)) \o char \o tail

\* "/Count 5" with a character around the end of the 50-byte window, a
\* Unicode space before the number, counts at the limit, several counts
SimpleInputs ==
    {Straddle(kw_Count \o <<32, 53>>, Len(kw_Count) + SimpleWindow, shift, c, Fill(n)) :
        shift \in 0..(MaxStraddle + 1), c \in WideChars \cup {<<255>>}, n \in 0..1}
    \cup {kw_Count \o <<194, 160>> \o ToDecimal(7),
          kw_Count \o <<195, 169>> \o ToDecimal(7),
          kw_Count \o <<32>> \o ToDecimal(SimpleLimit),
          kw_Count \o <<32>> \o ToDecimal(SimpleLimit - 1),
          kw_Count \o <<32>> \o ToDecimal(0),
          kw_Count \o <<32>> \o ToDecimal(2) \o kw_Count \o ToDecimal(3) \o kw_Count,
          Fill(2) \o kw_Count}

s_Type_Pages_Count == <<47, 84, 121, 112, 101, 32, 47, 80, 97, 103, 101, 115, 32, 47, 67, 111, 117, 110, 116, 32, 51>>    \* "/Type /Pages /Count 3"
s_Type_Pages == <<47, 84, 121, 112, 101, 32, 47, 80, 97, 103, 101, 115>>    \* "/Type /Pages"
s_Count_3 == <<32, 47, 67, 111, 117, 110, 116, 32, 51, 32>>    \* " /Count 3 "
s_catalog == <<49, 32, 48, 32, 111, 98, 106, 32, 60, 60, 32, 47, 80, 97, 103, 101, 115, 32, 50, 32, 48, 32, 82, 32, 62, 62, 32, 101, 110, 100, 111, 98, 106, 10>>
    \* "1 0 obj << /Pages 2 0 R >> endobj\n"
s_pages == <<50, 32, 48, 32, 111, 98, 106, 32, 60, 60, 32, 47, 67, 111, 117, 110, 116, 32, 52, 32, 62, 62, 32, 101, 110, 100, 111, 98, 106, 10>>
    \* "2 0 obj << /Count 4 >> endobj\n"
s_trailer == <<120, 114, 101, 102, 10, 116, 114, 97, 105, 108, 101, 114, 32, 60, 60, 32, 47, 82, 111, 111, 116, 32, 49, 32, 48, 32, 82, 32, 62, 62, 10, 115, 116, 97, 114, 116, 120, 114, 101, 102, 10>>
    \* "xref\ntrailer << /Root 1 0 R >>\nstartxref\n"
s_eof == <<10, 37, 37, 69, 79, 70>>    \* "\n%%EOF"

\* a file whose Pages dictionary has no /Type: only parse_pdf_structure reads
\* it; the offset after startxref is the xref table's, or another one
StructureFile(prefix, offset) ==
    prefix \o s_catalog \o s_pages \o s_trailer \o ToDecimal(offset) \o s_eof

XrefAt(prefix) == Len(prefix \o s_catalog \o s_pages)

FastInputs ==
    {Straddle(s_Type_Pages_Count, TypeWindow, shift, c, Fill(n)) :
        shift \in 0..(MaxStraddle + 1), c \in WideChars \cup {<<255>>}, n \in 0..1}
    \cup {Straddle(s_Type_Pages, PagesWindow, shift, c, s_Count_3) :
            shift \in 0..(MaxStraddle + 1), c \in {<<195, 169>>, <<255>>}}
    \cup {StructureFile(p, XrefAt(p)) : p \in WideChars \cup {<<>>, <<255>>}}
    \cup {StructureFile(p, k) : p \in WideChars \cup {<<255>>}, k \in 0..MaxStraddle}
    \cup {StructureFile(<<>>, 100000), s_trailer \o ToDecimal(0), s_Type_Pages_Count}

ParserInputs == MediaBoxInputs \cup SimpleInputs \cup FastInputs \cup PdfTexts

InitParsers ==
    /\ \E b \in ParserInputs : bytes = b
    /\ kind = "buffer"
    /\ doc = NoDoc
    /\ pc = "parse1"
    /\ result = None
    /\ invoked = <<>>
    /\ outcomes = <<>>
    /\ js = NoReply
    /\ estimate = NoEstimate

ExtractMediaBox ==
    Apply("parse1", "extract_mediabox_ultra_fast", extract_mediabox_ultra_fast(bytes), "parse2")

CountSimple ==
    Apply("parse2", "count_pdf_pages_simple", count_pdf_pages_simple(bytes), "parse3")

ExtractFast ==
    Apply("parse3", "extract_page_count_fast", extract_page_count_fast(bytes), "parse4")

NextParsers ==
    \/ ExtractMediaBox
    \/ CountSimple
    \/ ExtractFast

SpecParsers == InitParsers /\ [][NextParsers]_vars

(***************************************************************************)
(* Properties of count_pages_ultra_fast and its strategies.                *)
(***************************************************************************)
StrategyOrder ==
    <<"SpecFollowing", "TypePagesProximity", "GlobalMaxCount", "ExpandedWindow",
      "CountWithoutSlash">>

\* C1: the strategies run in the order SpecFollowing, TypePagesProximity,
\* GlobalMaxCount, ExpandedWindow, CountWithoutSlash; a strategy is invoked only
\* after every earlier one returned not-found, none is invoked twice, and the
\* result is the count of the first strategy that yields one (not-found when
\* all five yield none).
C1_FixedOrderFirstResult ==
    /\ Len(invoked) <= Len(StrategyOrder)
    /\ invoked = SubSeq(StrategyOrder, 1, Len(invoked))
    /\ \A k \in 1..(Len(invoked) - 1) : outcomes[k] = None
    /\ pc = "done" =>
          /\ invoked # <<>>
          /\ result = outcomes[Len(outcomes)]
          /\ result = None => invoked = StrategyOrder

\* two strategies returned not-found and the third one's count is the result
C1_Witness ==
    /\ pc = "done"
    /\ invoked = SubSeq(StrategyOrder, 1, 3)
    /\ outcomes[1] = None /\ outcomes[2] = None
    /\ result > 0 /\ result = outcomes[3]

\* C2: for every buffer the orchestrator and each strategy end with a count or
\* not-found: no index out of range, no slice whose start exceeds its end, no
\* arithmetic overflow (each of them is the outcome Panic), and the control
\* is at the end or at a label where the next strategy runs.
C2_NoPanic ==
    /\ pc # "panicked"
    /\ result # Panic
    /\ \A k \in 1..Len(outcomes) : outcomes[k] = None \/ outcomes[k] >= 0
    /\ pc \in {"start", "fallback1", "fallback2", "fallback3", "fallback4", "done"}

\* the number written after the last startxref of the buffer
XrefOffsetRead(b) ==
    IF Len(b) < MinFileLen \/ StartxrefPos(b) = None THEN None
    ELSE extract_first_number(SliceFrom(b, StartxrefPos(b) + 9))

\* a file whose startxref offset lies beyond its end went through all strategies
C2_Witness ==
    /\ kind = "xrefoff"
    /\ XrefOffsetRead(bytes) > Len(bytes)
    /\ pc = "done"
    /\ outcomes[1] = None

\* C3: the count count_pages_ultra_fast returns is at most 1,000,000,
\* whichever strategy produced it.
C3_CountAtMostMillion == pc = "done" /\ result # None => result <= 1000000

\* the /Count digits of the Pages node the catalog refers to
RootPagesCount(d) == ObjById(d, ObjById(d, d.root).ref).count

\* C4: for a complete document, the count SpecFollowing produces is the /Count
\* of the Pages object the catalog's /Pages refers to, whatever the order of
\* the objects in the file and whatever their numbers.
C4_SpecFollowingReadsRootCount ==
    \A k \in 1..Len(invoked) :
        kind = "pdf" /\ invoked[k] = "SpecFollowing" /\ outcomes[k] >= 0
            => ToDecimal(outcomes[k]) = RootPagesCount(doc)

\* the number of leaf page objects of the document
LeafPages(d) == Cardinality({k \in 1..Len(d.objs) : d.objs[k].kind = "page"})

\* C5: for a well-formed document with a flat page tree, SpecFollowing,
\* TypePagesProximity, GlobalMaxCount and FullParse all return the number of
\* leaf pages, also when another dictionary (an outline) carries a /Count.
C5_FlatTreeAllAgree ==
    \A k \in 1..Len(invoked) :
        /\ kind = "pdf" /\ doc.shape = "flat"
        /\ invoked[k] \in {"SpecFollowing", "TypePagesProximity", "GlobalMaxCount",
                           "FullParse"}
        => outcomes[k] = LeafPages(doc)

\* the largest n with 0 < n < 1,000,000 that a "/Count", whitespace, n of the
\* buffer carries, wherever it lies; None when there is none
MaxCountAnywhere(b) ==
    LET hits == MatchPositions(b, 0, Len(b), kw_Count)
        parsed == {DigitLoop(b, SkipWhitespace(b, i + 6, Len(b)), Len(b), 0, FALSE,
                             CountLimit) : i \in hits}
        counts == {r.num : r \in {q \in parsed : q.found /\ ~q.exceeded
                                                 /\ q.num > 0 /\ q.num < CountLimit}}
    IN  IF counts = {} THEN None ELSE Max(counts)

\* C6: GlobalMaxCount returns the maximum over every "/Count n" of the buffer
\* with n in range, wherever the occurrence lies, and not-found when there is
\* none.
C6_GlobalMaxOverWholeBuffer ==
    \A k \in 1..Len(invoked) :
        invoked[k] = "GlobalMaxCount" => outcomes[k] = MaxCountAnywhere(bytes)

HasStartxref(b) == MatchPositions(b, 0, Len(b), startxref_pattern) # {}

\* the first count of TypePagesProximity, GlobalMaxCount, ExpandedWindow,
\* CountWithoutSlash, in this order
FallbackChain(b) ==
    LET a1 == search_type_pages_pattern(b)
        a2 == search_all_count_values(b)
        a3 == search_pages_with_large_window(b)
        a4 == search_count_without_slash(b)
    IN  IF a1 # None THEN a1 ELSE IF a2 # None THEN a2 ELSE IF a3 # None THEN a3 ELSE a4

\* C7: for a buffer without the keyword startxref, SpecFollowing returns
\* not-found and the result of count_pages_ultra_fast is the result of the
\* fallback chain.
C7_NoStartxrefFallsBack ==
    ~HasStartxref(bytes) =>
        /\ Len(outcomes) >= 1 => outcomes[1] = None
        /\ pc = "done" => result = FallbackChain(bytes)

\* a truncated file that lost its startxref got its count from a fallback
C7_Witness ==
    /\ kind = "trunc"
    /\ ~HasStartxref(bytes)
    /\ Len(bytes) >= MinFileLen
    /\ pc = "done"
    /\ outcomes[1] = None
    /\ result > 0

\* the maximal run of decimal digits starting at the 0-based position p
DigitRun(b, p) ==
    LET stops == {q \in p..(Len(b) - 1) : ~is_ascii_digit(b[q + 1])}
    IN  SubSeq(b, p + 1, IF stops = {} THEN Len(b) ELSE Min(stops))

RECURSIVE StripZeros(_)
StripZeros(ds) == IF Len(ds) > 1 /\ Head(ds) = 48 THEN StripZeros(Tail(ds)) ELSE ds

\* the numbers written after the keyword Count (with or without the slash) in
\* the buffer: each the whole run of digits after the skipped separators
WholeRunsAfterCount(b) ==
    {StripZeros(DigitRun(b, SkipSpecial(b, i + 5, Len(b), TRUE)))
        : i \in MatchPositions(b, 0, Len(b), kw_CountBare)} \ {<<>>}

\* C8: a count a strategy read after a keyword is the value of the whole
\* maximal run of digits that follows it: never a prefix of the run, never a
\* wrapped value.
C8_WholeDigitRun ==
    \A k \in 1..Len(invoked) :
        invoked[k] # "FullParse" /\ outcomes[k] >= 0
            => ToDecimal(outcomes[k]) \in WholeRunsAfterCount(bytes)

(***************************************************************************)
(* Properties of the estimators and of estimate_pdf_with_pdfjs.            *)
(***************************************************************************)
\* C9: in every successful result of an estimator (text, Markdown, XLSX, DOCX,
\* PPTX, PDF, and estimate_pdf_with_pdfjs) page_sizes has page_count elements,
\* and none when page_count is zero.
C9_SizesMatchCount ==
    estimate.status = "ok" =>
        /\ Len(estimate.page_sizes) = estimate.page_count
        /\ estimate.page_count = 0 => estimate.page_sizes = <<>>

\* a workbook with two readable sheets gave three pages or more
C9_Witness ==
    /\ pc = "returned"
    /\ kind = "xlsx"
    /\ Len(doc.input.sheets) = 2
    /\ \A k \in 1..2 : doc.input.sheets[k].readable
    /\ estimate.status = "ok"
    /\ estimate.page_count >= 3
    /\ Len(estimate.page_sizes) = estimate.page_count

\* the reply of PDF.js carries no usable page count: an error, a value that is
\* no string, a string that is no JSON, or JSON without a numeric page_count
ReplyFailed(reply) ==
    \/ reply.tag \in {"err", "nonstring", "badjson"}
    \/ reply.tag = "json" /\ reply.page_count.t # "num"

\* what the synchronous path gives for the buffer: the result of
\* estimate_pdf_pages, or an error object (whatever its text) detected as pdf
SameAsSyncPath(out, text) ==
    LET sync == estimate_pdf_pages(text, DefaultOptions)
    IN  IF sync.status = "ok" THEN out = sync
        ELSE out.status = "err" /\ out.detected = <<"pdf">>

PdfBoundaryReturned ==
    /\ pc = "returned"
    /\ \/ kind = "pdfjs"
       \/ kind = "document" /\ detect_type(doc.filename, bytes, doc.input) = "pdf"

\* no page count can be extracted: the parser finds no page object and, for
\* estimate_pdf_with_pdfjs, the reply of PDF.js carries no usable page count
NoPageCountExtracted ==
    /\ estimate_pdf_pages(bytes, doc.options).status = "err"
    /\ kind = "pdfjs" => ReplyFailed(js)

\* {"error": <string>, "detected": "pdf"}, without page_count
IsPdfErrorObject(out) ==
    out.status = "err" /\ out.error # <<>> /\ out.detected = <<"pdf">>

C11_DocumentOnly ==
    PdfBoundaryReturned /\ kind = "document" =>
        (NoPageCountExtracted <=> IsPdfErrorObject(estimate))

\* the call was estimate_pdf_pages on a PDF with k >= 1 page objects
PageObjectsCounted ==
    pc = "returned" /\ kind = "pdf" /\ doc.input.page_objects >= 1

\* C15: for a PDF with exactly k page objects (k >= 1), each marked
\* "/Type /Page" or "/Type/Page", and any number of "/Type /Pages" nodes,
\* estimate_pdf_pages returns page_count = k with k page sizes (one page gives
\* 1 and one size); a "/Type /Pages" is never counted as a page.
C15_PageObjectsCounted ==
    PageObjectsCounted =>
        /\ estimate.status = "ok"
        /\ estimate.page_count = doc.input.page_objects
        /\ Len(estimate.page_sizes) = doc.input.page_objects

\* the same for the PDFs that have no page label dictionary
C15_WithoutPageLabels ==
    PageObjectsCounted /\ doc.input.labels = 0 =>
        /\ estimate.status = "ok"
        /\ estimate.page_count = doc.input.page_objects
        /\ Len(estimate.page_sizes) = doc.input.page_objects

\* the size of a 612 by 792 point page, in millimetres
LetterMm == PageSizeMm(<<mm_from_pt(LetterPt[1]), mm_from_pt(LetterPt[2])>>)

\* a PDF estimator has returned for a PDF of ManyPages pages, all 612 by 792
LargeUniformPdfEstimated ==
    /\ pc = "returned"
    /\ \/ /\ kind = "lopdf"
          /\ doc.input.loads
          /\ Len(doc.input.pages) = ManyPages
          /\ \A k \in 1..ManyPages : doc.input.pages[k].media_box = <<LetterBox>>
       \/ /\ kind = "pdf"
          /\ doc.input.page_objects = ManyPages
          /\ doc.input.size_pt = LetterPt

\* the note says that sampling was used; the notes the estimators write are
\* "Page", "PDF has pages", "use estimate_pdf_with_pdfjs" and "Using PDF.js"
IsSamplingNote(note) == note[1] = "sampling was used"

\* C17: for a PDF of 150 pages that all are 612 by 792 points the PDF
\* estimator returns 150 page sizes, all equal to that size in millimetres,
\* and a note stating that sampling was used.
C17_LargeUniformPdfSampled ==
    LargeUniformPdfEstimated =>
        /\ estimate.status = "ok"
        /\ Len(estimate.page_sizes) = ManyPages
        /\ \A k \in 1..Len(estimate.page_sizes) : estimate.page_sizes[k] = LetterMm
        /\ \E k \in 1..Len(estimate.notes) : IsSamplingNote(estimate.notes[k])

\* the first part holds for estimate_pdf_pages of lib.rs: 150 equal sizes
C17_LopdfSizesOnly ==
    LargeUniformPdfEstimated /\ kind = "lopdf" =>
        /\ estimate.status = "ok"
        /\ Len(estimate.page_sizes) = ManyPages
        /\ \A k \in 1..Len(estimate.page_sizes) : estimate.page_sizes[k] = LetterMm

\* the box the claim designates for a page: its MediaBox when that is a
\* rectangle, else its CropBox when that is one, else 595 by 842
DesignatedPts(page) ==
    IF page.media_box # <<>> /\ IsRectangle(page.media_box[1])
    THEN RectanglePts(page.media_box[1])
    ELSE IF page.crop_box # <<>> /\ IsRectangle(page.crop_box[1])
    THEN RectanglePts(page.crop_box[1])
    ELSE <<DefaultWidthPt, DefaultHeightPt>>

C18_WellFormedMediaBox ==
    pc = "returned" /\ kind = "lopdf" /\ estimate.status = "ok" =>
        \A k \in 1..Len(doc.input.pages) :
            /\ doc.input.pages[k].object = "dictionary"
            /\ doc.input.pages[k].media_box # <<>> => IsRectangle(doc.input.pages[k].media_box[1])
            => estimate.page_sizes[k] =
                    PageSizeMm(<<mm_from_pt(DesignatedPts(doc.input.pages[k])[1]),
                                 mm_from_pt(DesignatedPts(doc.input.pages[k])[2])>>)

\* estimate_text_pages was called on valid UTF-8 and has come to an end
TextEstimated ==
    /\ pc \in {"returned", "panicked"}
    /\ kind = "txt"
    /\ Utf8Valid(bytes)

CharsPerPage == unwrap_or(doc.options.chars_per_page, DefaultCharsPerPage)

\* C19: for valid UTF-8 input estimate_text_pages returns page_count equal to
\* the number of Unicode characters divided by chars_per_page, rounded up, with
\* chars_per_page defaulting to 1800 (chars_per_page = 0, where the quotient is
\* not defined, is left out).
C19_CeilOfCharsPerPage ==
    (TextEstimated /\ CharsPerPage # 0) =>
        /\ estimate.status = "ok"
        /\ estimate.page_count = CeilDiv(CharCount(bytes), CharsPerPage)

\* the same where chars + chars_per_page - 1 does not pass usize::MAX; 1800
\* characters give 1 page, 1801 give 2 and empty text gives 0 by default
C19_WithoutOverflow ==
    (TextEstimated /\ CharsPerPage # 0
        /\ (CharsPerPage < 0 => CharCount(bytes) + CharsPerPage - 1 < 0)) =>
        /\ estimate.status = "ok"
        /\ estimate.page_count = CeilDiv(CharCount(bytes), CharsPerPage)
        /\ doc.options.chars_per_page = <<>> =>
              /\ CharCount(bytes) = 0 => estimate.page_count = 0
              /\ CharCount(bytes) = DefaultCharsPerPage => estimate.page_count = 1
              /\ CharCount(bytes) = DefaultCharsPerPage + 1 => estimate.page_count = 2

\* estimate_text_pages or estimate_markdown_pages was called on bytes that are
\* not valid UTF-8 and has come to an end
InvalidTextEstimated ==
    /\ pc \in {"returned", "panicked"}
    /\ kind \in {"txt", "markdown"}
    /\ ~Utf8Valid(bytes)

HasInvalidUtf8Note == \E i \in 1..Len(estimate.notes) : estimate.notes[i] = <<"Text not valid UTF-8">>

\* C20: for input that is not valid UTF-8, estimate_text_pages and
\* estimate_markdown_pages return a result, not an error, with page_count 0,
\* empty page_sizes and a note saying that the text is not valid UTF-8,
\* whatever the options are.
C20_InvalidUtf8EmptyResult ==
    InvalidTextEstimated =>
        /\ pc = "returned"
        /\ estimate.status = "ok"
        /\ estimate.error = <<>>
        /\ estimate.page_count = 0
        /\ estimate.page_sizes = <<>>
        /\ HasInvalidUtf8Note

\* estimate_markdown_pages returned for a stray continuation byte after two
\* characters, with chars_per_page = 0
C20_Witness ==
    /\ InvalidTextEstimated
    /\ kind = "markdown"
    /\ bytes = Fill(2) \o <<169>>
    /\ doc.options.chars_per_page = <<0>>
    /\ estimate.page_count = 0
    /\ HasInvalidUtf8Note

(***************************************************************************)
(* Properties of the byte-level helpers.                                   *)
(***************************************************************************)
\* C12: extract_mediabox_ultra_fast is total: for every buffer, also one that
\* ends right after "/MediaBox [" or ends in whitespace inside the bracket, it
\* returns dimensions or not-found and never reads at an index >= the length.
C12_MediaBoxTotal ==
    \A k \in 1..Len(invoked) :
        invoked[k] = "extract_mediabox_ultra_fast" => outcomes[k].status \in {"some", "none"}

\* C13: count_pdf_pages_simple never panics, also on valid UTF-8 with
\* multi-byte characters within 50 bytes after "/Count": it never slices the
\* text off a char boundary or out of range.
C13_SimpleNeverPanics ==
    \A k \in 1..Len(invoked) :
        invoked[k] = "count_pdf_pages_simple" => outcomes[k] # Panic

\* C14: extract_page_count_fast never panics: the 50-byte window after
\* "/Type", the 1000-byte window after a Pages position and the slice at the
\* xref offset read from the file are all cut at char boundaries within range.
C14_FastNeverPanics ==
    \A k \in 1..Len(invoked) :
        invoked[k] = "extract_page_count_fast" => outcomes[k] # Panic

(***************************************************************************)
(* Repeated calls on one buffer.  The functions have no static, no cell    *)
(* and no cache: between two calls only the caller's buffer remains, and   *)
(* the calls borrow it immutably.                                          *)
(***************************************************************************)
MaxCalls == 3    \* calls made on the buffer

\* count_pages_ultra_fast with a best count kept from one call to the next: a
\* count is returned only when it exceeds the one an earlier call found
count_pages_ultra_fast_StaticBest(b) ==
    LET first == parse_from_end_of_file(b)
        count == IF first # None THEN first ELSE FallbackChain(b)
    IN  IF count >= 0 /\ count <= result THEN None ELSE count

\* the whole of count_pages_ultra_fast as a function of the buffer
count_pages_ultra_fast(b) ==
    LET first == parse_from_end_of_file(b)
    IN  IF first # None THEN first ELSE FallbackChain(b)

RepeatInputs ==
    {Render(d) : d \in TruncBase \cup DeclaredDocs}
    \cup {inp.bytes : inp \in XrefInputs \cup RawInputs}
    \cup PdfTexts

InitRepeat ==
    /\ \E b \in RepeatInputs : bytes = b
    /\ kind = "buffer"
    /\ doc = NoDoc
    /\ pc = "idle"
    /\ result = None
    /\ invoked = <<>>
    /\ outcomes = <<>>
    /\ js = NoReply
    /\ estimate = NoEstimate

CallCountPages ==
    /\ pc = "idle"
    /\ Len(invoked) < MaxCalls
    /\ invoked' = Append(invoked, "count_pages_ultra_fast")
    /\ outcomes' = Append(outcomes, count_pages_ultra_fast(bytes))
    /\ result' = count_pages_ultra_fast(bytes)
    /\ UNCHANGED <<kind, doc, bytes, pc, js, estimate>>

CallEstimatePdf ==
    /\ pc = "idle"
    /\ Len(invoked) < MaxCalls
    /\ invoked' = Append(invoked, "estimate_pdf_pages")
    /\ outcomes' = Append(outcomes, estimate_pdf_pages(bytes, DefaultOptions))
    /\ estimate' = estimate_pdf_pages(bytes, DefaultOptions)
    /\ UNCHANGED <<kind, doc, bytes, pc, result, js>>

NextRepeat ==
    \/ CallCountPages
    \/ CallEstimatePdf

SpecRepeat == InitRepeat /\ [][NextRepeat]_vars

Upper(name) ==
    [i \in 1..Len(name) |-> IF name[i] >= 97 /\ name[i] <= 122 THEN name[i] - 32 ELSE name[i]]

Extensions == {ext_pdf, ext_xlsx, ext_xlsm, ext_docx, ext_pptx, ext_md, ext_markdown, ext_txt}

\* no name; every extension in lower case, in upper case and with a capital
\* first letter; an extension that is not the last one; names without a dot or
\* with an extension that is not recognised
DetectNames ==
    {<<>>}
    \cup {<<<<97>> \o e>> : e \in Extensions}
    \cup {<<<<65>> \o Upper(e)>> : e \in Extensions}
    \cup {<<<<97, 46, e[2] - 32>> \o SubSeq(e, 3, Len(e))>> : e \in Extensions}
    \cup {<<ext_pdf \o ext_txt>>, <<ext_docx \o ext_pdf>>, <<ext_md \o <<120>>>>,
          <<<<97>>>>, <<<<112, 100, 102>>>>, <<<<97, 46, 98, 105, 110>>>>}

\* buffers with and without the four bytes the magic tests ask for, text with
\* the bytes at the ends of its ranges, and bytes just outside them
DetectBuffers ==
    {<<>>, magic_pdf, magic_pdf \o <<45, 49>>, magic_pdf \o <<0, 255>>, <<37, 80, 68>>,
     <<32>> \o magic_pdf, magic_zip, magic_zip \o <<49>>, Fill(MaxChars),
     <<9, 10, 13, 32, 126, 127>>, <<31>>, <<128>>, <<0, 255>>, <<120, 11>>}

ZipBuffers == {magic_zip \o <<3, 4>>, magic_zip \o Fill(2)}

DetectCalls ==
    {DocumentCall(b, NoContainer, f, DefaultOptions) : b \in DetectBuffers, f \in DetectNames}
    \cup {DocumentCall(b, c, f, DefaultOptions) :
            b \in ZipBuffers, c \in Containers, f \in DetectNames}

InitDetect ==
    /\ \E c \in DetectCalls : kind = c.kind /\ doc = c.doc /\ bytes = c.bytes
    /\ pc = "detect"
    /\ result = None
    /\ invoked = <<>>
    /\ outcomes = <<>>
    /\ js = NoReply
    /\ estimate = NoEstimate

DetectType ==
    Apply("detect", "detect_type", detect_type(doc.filename, bytes, doc.input), "detected")

NextDetect == DetectType

SpecDetect == InitDetect /\ [][NextDetect]_vars

\* the name ends with the extension, whatever the case of its letters
HasExtension(name, ext) ==
    /\ Len(name) >= Len(ext)
    /\ \A i \in 1..Len(ext) :
          LET c == name[Len(name) - Len(ext) + i]
          IN  c = ext[i] \/ (c >= 65 /\ c <= 90 /\ c + 32 = ext[i])

\* the type of the recognised extension of the file name, "" when there is no
\* name or no recognised extension
ExtensionType ==
    IF doc.filename = <<>> THEN ""
    ELSE LET name == doc.filename[1]
         IN  IF HasExtension(name, ext_pdf) THEN "pdf"
             ELSE IF HasExtension(name, ext_xlsx) \/ HasExtension(name, ext_xlsm) THEN "xlsx"
             ELSE IF HasExtension(name, ext_docx) THEN "docx"
             ELSE IF HasExtension(name, ext_pptx) THEN "pptx"
             ELSE IF HasExtension(name, ext_md) \/ HasExtension(name, ext_markdown)
                  THEN "markdown"
             ELSE IF HasExtension(name, ext_txt) THEN "txt"
             ELSE ""

StartsWith(b, prefix) == Len(b) >= Len(prefix) /\ SubSeq(b, 1, Len(prefix)) = prefix

\* tab, LF, CR and the bytes 32 to 127 the documentation of detect_type names
IsTextByte(b) == b \in {9, 10, 13} \/ (b >= 32 /\ b <= 127)

EmptyDocumentEstimated ==
    /\ pc \in {"returned", "panicked"}
    /\ kind = "document"
    /\ bytes = <<>>

\* {"error": <string>, ...}
IsErrorObject(out) == out.status = "err" /\ out.error # <<>>

\* C22: estimate_document returns an error object, a JSON object with an
\* `error` field, whenever the document bytes are empty, for every file name
\* (none included) and every options value.
C22_EmptyBytesError ==
    EmptyDocumentEstimated => IsErrorObject(estimate)

\* the same for the file names of a PDF or an Office document
C22_EmptyPdfOrOffice ==
    (EmptyDocumentEstimated /\ ExtensionType \in {"pdf", "xlsx", "docx", "pptx"}) =>
        IsErrorObject(estimate)

(***************************************************************************)
(* extract_count_from_snippet applied on its own to a snippet.             *)
(***************************************************************************)
\* what precedes "/Count", what separates it from the number, the number, and
\* what follows; snippets without "/Count"
SnippetHeads == {<<>>, s_Type_Pages, <<47, 75, 105, 100, 115, 32, 53, 32>>}
SnippetGaps == {<<>>, <<32>>, <<10, 9, 32>>, <<194, 160>>, <<47>>, <<45>>, <<88, 32>>}
SnippetNumbers ==
    {<<>>, <<48>>, <<52, 50>>, <<48, 48, 55>>, <<49, 48, 48>>,
     <<52, 50, 57, 52, 57, 54, 55, 50, 57, 54>>,                    \* 4294967296
     <<57, 57, 57, 57, 57, 57, 57, 57, 57, 57, 57>>}
SnippetTails == {<<>>, <<47, 75, 105, 100, 115, 91, 49, 32, 48, 32, 82, 93>>,
                 <<32>> \o kw_Count \o <<32, 55>>}

SnippetInputs ==
    {h \o kw_Count \o g \o n \o t :
        h \in SnippetHeads, g \in SnippetGaps, n \in SnippetNumbers, t \in SnippetTails}
    \cup {<<>>, kw_CountBare \o <<32, 53>>, <<47, 67, 111, 117, 110, 32, 53>>,
          <<47, 99, 111, 117, 110, 116, 32, 53>>}

InitSnippet ==
    /\ \E b \in SnippetInputs : bytes = b
    /\ kind = "snippet"
    /\ doc = NoDoc
    /\ pc = "snippet"
    /\ result = None
    /\ invoked = <<>>
    /\ outcomes = <<>>
    /\ js = NoReply
    /\ estimate = NoEstimate

ExtractCountFromSnippet ==
    Apply("snippet", "extract_count_from_snippet", extract_count_from_snippet(bytes), "read")

NextSnippet == ExtractCountFromSnippet

SpecSnippet == InitSnippet /\ [][NextSnippet]_vars

\* the offsets of "/Count" in the snippet
CountOffsets == {p \in 0..(Len(bytes) - 6) : SubSeq(bytes, p + 1, p + 6) = kw_Count}

\* the offset after the whitespace that starts at q
RECURSIVE AfterWhitespace(_, _)
AfterWhitespace(s, q) ==
    IF q < Len(s) /\ WhitespaceLen(s, q) > 0 THEN AfterWhitespace(s, q + WhitespaceLen(s, q))
    ELSE q

\* the digits that follow the first "/Count" after optional whitespace
DigitsAfterFirstCount ==
    IF CountOffsets = {} THEN <<>>
    ELSE DigitRun(bytes, AfterWhitespace(bytes, Min(CountOffsets) + 6))

\* the digits of usize::MAX
UsizeMaxDigits == <<52, 50, 57, 52, 57, 54, 55, 50, 57, 53>>

\* the number the digits write is at most usize::MAX
FitsUsize(digits) ==
    LET ds == StripZeros(digits)
    IN  \/ Len(ds) < Len(UsizeMaxDigits)
        \/ /\ Len(ds) = Len(UsizeMaxDigits)
           /\ \/ ds = UsizeMaxDigits
              \/ \E i \in 1..Len(ds) :
                    ds[i] < UsizeMaxDigits[i] /\ \A j \in 1..(i - 1) : ds[j] = UsizeMaxDigits[j]

AnchorOrder ==
    <<"startxref", "xref_offset", "trailer", "/Root", "root_obj", "/Pages", "pages_obj", "/Count">>

\* the one-page file with an anchor taken away: a trailer whose /Root is
\* spelled /Xoot, a /Root that refers to an object the file does not have, a
\* catalog whose /Pages refers to such an object
MissingId == 9

NoRootReference ==
    LET b == Render(XrefBase)
        p == Max(MatchPositions(b, 0, Len(b), kw_Root))
    IN  [b EXCEPT ![p + 2] = 88]

NoRootObject == [XrefBase EXCEPT !.root = MissingId]

NoPagesObject ==
    [XrefBase EXCEPT !.objs = [k \in DOMAIN @ |->
        IF @[k].kind = "catalog" THEN [@[k] EXCEPT !.ref = MissingId] ELSE @[k]]]

AnchorInputs ==
    {Input("anchor", XrefBase, NoRootReference),
     Input("anchor", NoRootObject, Render(NoRootObject)),
     Input("anchor", NoPagesObject, Render(NoPagesObject))}

\* buffers around the window in which startxref is looked for: a startxref
\* line that starts StartxrefWindow bytes before the end, or up to MaxEdge
\* bytes nearer or farther; a startxref that is the last bytes of the buffer,
\* alone and after a complete file; a second startxref line after a complete
\* file
MaxEdge == 1

StartxrefLine == startxref_pattern \o <<10, 53, 10>>

StartxrefInputs ==
    {Input("startxref", NoDoc, Fill(MinFileLen) \o StartxrefLine \o Fill(tail))
        : tail \in (StartxrefWindow - Len(StartxrefLine) - MaxEdge)
                   ..(StartxrefWindow - Len(StartxrefLine) + MaxEdge)}
    \cup {Input("startxref", NoDoc, Fill(MinFileLen) \o StartxrefLine \o Fill(MaxEdge)),
          Input("startxref", XrefBase, Render(XrefBase) \o startxref_pattern),
          Input("startxref", XrefBase, Render(XrefBase) \o StartxrefLine),
          Input("startxref", XrefBase, RenderWith(XrefBase, <<>>) \o StartxrefLine)}

FastPathInputs == Inputs \cup AnchorInputs \cup StartxrefInputs

InitFastPath ==
    /\ \E inp \in FastPathInputs : kind = inp.kind /\ doc = inp.doc /\ bytes = inp.bytes
    /\ pc = "startxref"
    /\ result = None
    /\ invoked = <<>>
    /\ outcomes = <<>>
    /\ js = NoReply
    /\ estimate = NoEstimate

\* one statement that looks for an anchor: status is "found", "none" or "panic"
Anchor(label, name, value, status, next) ==
    /\ pc = label
    /\ invoked' = IF status = "found" THEN Append(invoked, name) ELSE invoked
    /\ outcomes' = IF status = "found" THEN Append(outcomes, value) ELSE outcomes
    /\ pc' = CASE status = "found" -> next
               [] status = "panic" -> "panicked"
               [] OTHER -> "failed"
    /\ result' = IF status = "found" /\ next = "done" THEN value ELSE None
    /\ UNCHANGED <<kind, doc, bytes, js, estimate>>

NumberStatus(n) == IF n = Panic THEN "panic" ELSE IF n = None THEN "none" ELSE "found"

\* if bytes.len() < 100 { return None; } ... let startxref_pos = startxref_pos?;
FindStartxref ==
    LET startxref_pos == IF Len(bytes) < MinFileLen THEN None ELSE StartxrefPos(bytes)
    IN  Anchor("startxref", "startxref", startxref_pos, NumberStatus(startxref_pos),
               "xref_offset")

\* the xref offset is read and bounded, without the comparison with bytes.len()
ReadXrefOffset_Unguarded ==
    LET start == outcomes[1] + 9
        xref_offset == IF SliceOk(bytes, start, Len(bytes))
                       THEN extract_first_number(SliceFrom(bytes, start)) ELSE Panic
    IN  Anchor("xref_offset", "xref_offset", xref_offset, NumberStatus(xref_offset), "trailer")

\* let xref_offset = extract_first_number(after_startxref)?;
\* if xref_offset >= bytes.len() { return None; }
ReadXrefOffset ==
    LET start == outcomes[1] + 9
        xref_offset == IF SliceOk(bytes, start, Len(bytes))
                       THEN extract_first_number(SliceFrom(bytes, start)) ELSE Panic
    IN  Anchor("xref_offset", "xref_offset", xref_offset,
               IF xref_offset >= Len(bytes) THEN "none" ELSE NumberStatus(xref_offset),
               "trailer")

\* let from_xref = &bytes[xref_offset..]; the first "trailer" of its first 5000
\* offsets; let trailer_section = &from_xref[trailer_pos..(trailer_pos + 2000).min(len)]
FindTrailer ==
    LET xref_offset == outcomes[2]
        sliced == SliceOk(bytes, xref_offset, Len(bytes))
        from_xref == IF sliced THEN SliceFrom(bytes, xref_offset) ELSE <<>>
        hits == MatchPositions(from_xref, 0,
                    MinOf(saturating_sub(Len(from_xref), Len(trailer_pattern)),
                          TrailerScanLimit),
                    trailer_pattern)
        trailer_pos == Min(hits \cup {Len(from_xref)})
        trailer_end == MinOf(trailer_pos + TrailerSectionLen, Len(from_xref))
    IN  Anchor("trailer", "trailer", Slice(from_xref, trailer_pos, trailer_end),
               IF ~sliced THEN "panic" ELSE IF hits = {} THEN "none" ELSE "found",
               "/Root")

\* let root_obj_id = find_object_reference(trailer_section, b"/Root")?;
FindRootReference ==
    LET root_obj_id == find_object_reference(outcomes[3], kw_Root)
    IN  Anchor("/Root", "/Root", root_obj_id, NumberStatus(root_obj_id), "root_obj")

\* let root_section = find_object_by_id(bytes, root_obj_id)?;
FindRootObject ==
    LET root == find_object_by_id(bytes, outcomes[4])
    IN  Anchor("root_obj", "root_obj", root.section, IF root.found THEN "found" ELSE "none",
               "/Pages")

\* let pages_obj_id = find_object_reference(root_section, b"/Pages")?;
FindPagesReference ==
    LET pages_obj_id == find_object_reference(outcomes[5], kw_Pages)
    IN  Anchor("/Pages", "/Pages", pages_obj_id, NumberStatus(pages_obj_id), "pages_obj")

\* let pages_section = find_object_by_id(bytes, pages_obj_id)?;
FindPagesObject ==
    LET pages == find_object_by_id(bytes, outcomes[6])
    IN  Anchor("pages_obj", "pages_obj", pages.section,
               IF pages.found THEN "found" ELSE "none", "/Count")

\* find_count_value(pages_section)
ReadCount ==
    LET count == find_count_value(outcomes[7])
    IN  Anchor("/Count", "/Count", count, NumberStatus(count), "done")

NextFastPath ==
    \/ FindStartxref
    \/ ReadXrefOffset
    \/ FindTrailer
    \/ FindRootReference
    \/ FindRootObject
    \/ FindPagesReference
    \/ FindPagesObject
    \/ ReadCount

SpecFastPath == InitFastPath /\ [][NextFastPath]_vars

\* C24: the fast path finds its anchors strictly in the order startxref, xref
\* offset, trailer, /Root reference, root object, /Pages reference, Pages
\* object, /Count.  When an anchor is not found, or the xref offset is not
\* below the length of the buffer, it returns not-found without raising; a
\* count is returned only after every anchor before it was found.
C24_AnchorsInOrder ==
    /\ Len(invoked) <= Len(AnchorOrder)
    /\ \A k \in 1..Len(invoked) : invoked[k] = AnchorOrder[k]
    /\ pc # "panicked"
    /\ Len(invoked) >= 2 => outcomes[2] < Len(bytes)
    /\ pc = "failed" => result = None /\ Len(invoked) < Len(AnchorOrder)
    /\ result # None => pc = "done" /\ invoked = AnchorOrder /\ result = outcomes[8]
    /\ pc \in {"done", "failed"} => result = parse_from_end_of_file(bytes)

\* a complete file gave its count after all eight anchors
C24_Witness ==
    /\ pc = "done"
    /\ invoked = AnchorOrder
    /\ doc # NoDoc
    /\ result >= 1
    /\ result = outcomes[8]

\* parse_from_end_of_file has looked for startxref in a buffer of MinFileLen
\* bytes or more
StartxrefLookedFor ==
    /\ Len(bytes) >= MinFileLen
    /\ pc # "startxref"

\* the offsets at which "startxref" starts in the last StartxrefWindow bytes of
\* the buffer with all its nine bytes inside the buffer
StartxrefInWindow ==
    {p \in saturating_sub(Len(bytes), StartxrefWindow)..(Len(bytes) - Len(startxref_pattern)) :
        p >= 0 /\ SubSeq(bytes, p + 1, p + Len(startxref_pattern)) = startxref_pattern}

\* C25: the fast path looks for startxref only in the last 1024 bytes of the
\* buffer.  A startxref anywhere in that window, the last nine bytes of the
\* buffer included, is found, and the last one is the one used; when the only
\* startxref starts more than 1024 bytes before the end the fast path returns
\* not-found.
C25_LastStartxrefInWindow ==
    StartxrefLookedFor =>
        IF StartxrefInWindow = {} THEN invoked = <<>> /\ pc = "failed" /\ result = None
        ELSE invoked # <<>> /\ outcomes[1] = Max(StartxrefInWindow)

\* the same without the startxref that is the last nine bytes of the buffer
C25_FollowedByAByte ==
    StartxrefLookedFor =>
        LET followed == StartxrefInWindow \ {Len(bytes) - Len(startxref_pattern)}
        IN  IF followed = {} THEN invoked = <<>> /\ pc = "failed" /\ result = None
            ELSE invoked # <<>> /\ outcomes[1] = Max(followed)

(***************************************************************************)
(* Properties of the fallback strategies, each applied on its own.         *)
(***************************************************************************)
\* the offsets of the keyword in the buffer
OffsetsOf(keyword) == MatchPositions(bytes, 0, Len(bytes), keyword)

\* the number written after the "/Count" at offset j and optional whitespace,
\* when it has digits and lies in 1..999999; None otherwise
InRangeCountAt(j) ==
    LET r == DigitLoop(bytes, SkipWhitespace(bytes, j + 6, Len(bytes)), Len(bytes), 0, FALSE,
                       CountLimit)
    IN  IF r.found /\ ~r.exceeded /\ ~r.overflow /\ r.num > 0 /\ r.num < CountLimit
        THEN r.num ELSE None

\* C26: TypePagesProximity looks for a "/Count n" in a bounded window on both
\* sides of every "/Pages" and returns the largest n in range: a "/Count n"
\* that lies in the window before a "/Pages" is found as one that lies after
\* it.  (The "/Pages" is taken 20 bytes or more before the end of the buffer,
\* where the loop over the buffer reaches it.)
C26_CountBeforePagesFound ==
    \A k \in 1..Len(invoked) :
        invoked[k] = "TypePagesProximity" =>
            \A i \in OffsetsOf(kw_Pages), j \in OffsetsOf(kw_Count) :
                (i + 20 < Len(bytes) /\ j < i /\ i - j <= TypePagesWindow
                    /\ InRangeCountAt(j) # None)
                => outcomes[k] >= InRangeCountAt(j)

\* a count TypePagesProximity returns was read at or after a "/Pages", less
\* than TypePagesWindow bytes from it
C26_CountAfterPagesOnly ==
    \A k \in 1..Len(invoked) :
        (invoked[k] = "TypePagesProximity" /\ outcomes[k] >= 0) =>
            \E i \in OffsetsOf(kw_Pages), j \in OffsetsOf(kw_Count) :
                i <= j /\ j < i + TypePagesWindow

FallbackNames == {"TypePagesProximity", "GlobalMaxCount", "ExpandedWindow", "CountWithoutSlash"}

\* a fallback never returns 0 or a value of CountLimit or more
OutOfRangeNeverReturned ==
    \A k \in 1..Len(invoked) :
        (invoked[k] \in FallbackNames /\ outcomes[k] # None) =>
            outcomes[k] > 0 /\ outcomes[k] < CountLimit

\* the "/Count" offsets with a number in range that lie in the window after a
\* "/Pages" the loop of search_type_pages_pattern reaches, 20 bytes or more
\* before the end of the window
InRangeAfterPages ==
    {j \in OffsetsOf(kw_Count) :
        /\ InRangeCountAt(j) # None
        /\ \E i \in OffsetsOf(kw_Pages) :
              /\ i + 20 < Len(bytes)
              /\ i <= j
              /\ j + 20 <= MinOf(i + TypePagesWindow, Len(bytes))}

\* the "/Count" offsets with a number in range, 21 bytes or more before the
\* end of the buffer
InRangeAnywhere ==
    {j \in OffsetsOf(kw_Count) : InRangeCountAt(j) # None /\ j + 21 < Len(bytes)}

\* C27: in each fallback strategy a "/Count" whose value is 0 or above the
\* sanity bound is ignored: it is never returned, and it does not keep another
\* "/Count" with a value in range, in the same window or elsewhere in the
\* scanned range, from being found and returned.
C27_OutOfRangeIgnored ==
    /\ OutOfRangeNeverReturned
    /\ \A k \in 1..Len(invoked) :
          /\ (invoked[k] \in {"TypePagesProximity", "ExpandedWindow"}
                /\ InRangeAfterPages # {}) => outcomes[k] # None
          /\ (invoked[k] \in {"GlobalMaxCount", "CountWithoutSlash"}
                /\ InRangeAnywhere # {}) => outcomes[k] # None

\* the same for the two strategies that read every "/Count" of the buffer, and
\* the first half for all four
C27_WholeBufferStrategies ==
    /\ OutOfRangeNeverReturned
    /\ \A k \in 1..Len(invoked) :
          (invoked[k] \in {"GlobalMaxCount", "CountWithoutSlash"}
                /\ InRangeAnywhere # {}) => outcomes[k] # None

\* the outcome of the named strategy, once it has been applied
OutcomeOf(name) ==
    LET ks == {k \in 1..Len(invoked) : invoked[k] = name}
    IN IF ks = {} THEN <<>> ELSE <<outcomes[CHOOSE k \in ks : TRUE]>>

\* C28: on every buffer on which TypePagesProximity returns a count c,
\* ExpandedWindow returns a count too, and that count is c or more.
C28_ExpandedAtLeastProximity ==
    LET p == OutcomeOf("TypePagesProximity")
        e == OutcomeOf("ExpandedWindow")
    IN (p # <<>> /\ e # <<>> /\ p[1] # None) => (e[1] # None /\ e[1] >= p[1])

\* the same on the buffers whose "/Pages" occurrences all lie more than 50
\* bytes before the end, where the loop of ExpandedWindow reaches every
\* "/Pages" the loop of TypePagesProximity reaches
C28_PagesFarFromEnd ==
    (\A i \in OffsetsOf(kw_Pages) : i + 50 < Len(bytes))
        => C28_ExpandedAtLeastProximity

(***************************************************************************)
(* Properties of the count count_pages_ultra_fast returns.                 *)
(***************************************************************************)

\* C29: count_pages_ultra_fast never returns a count of 0: a strategy that
\* parses a zero count, the fast path reading "/Count 0" from the Pages
\* object included, gives no result and the next strategy is tried, so every
\* returned count is 1 or more.
C29_NeverZero ==
    /\ (pc = "done" /\ result # None) => result >= 1
    /\ \A k \in 1..Len(invoked) : outcomes[k] = 0 => k < Len(invoked) \/ pc # "done"

\* the same for the four fallback strategies: none of them yields 0, so a
\* returned 0 is always the fast path's
C29_FallbacksNeverZero ==
    /\ \A k \in 1..Len(invoked) :
          outcomes[k] = 0 => invoked[k] = "SpecFollowing"
    /\ (pc = "done" /\ result = 0) => invoked = <<"SpecFollowing">>

(***************************************************************************)
(* Properties of the text estimators over every options value.             *)
(***************************************************************************)

\* estimate_text_pages or estimate_markdown_pages was called, or
\* estimate_document on input detected as txt or markdown, and the call has
\* come to an end
TextPathEstimated ==
    /\ pc \in {"returned", "panicked"}
    /\ \/ kind \in {"txt", "markdown"}
       \/ /\ kind = "document"
          /\ detect_type(doc.filename, bytes, doc.input) \in {"txt", "markdown"}

\* C30: estimate_text_pages, and estimate_document for txt and markdown
\* input, returns a result for every options value a caller can supply,
\* chars_per_page = 0 and empty text included: the page computation never
\* divides by zero and never underflows.
C30_ResultForEveryOptions ==
    TextPathEstimated => (pc = "returned" /\ estimate.status = "ok")

\* the same for the options whose chars_per_page is absent or at least 1 and
\* with which chars + chars_per_page - 1 stays within usize
C30_PositiveCharsPerPage ==
    (TextPathEstimated /\ CharsPerPage # 0
        /\ (CharsPerPage < 0 => CharCount(bytes) + CharsPerPage - 1 < 0)) =>
        (pc = "returned" /\ estimate.status = "ok")

====
